---- MODULE Spec2Model ----
(***************************************************************************)
(* Discrete-event model of the instrument workflow simulation engine       *)
(* (src/src/simulation/core.py, timing.py, models.py).  The engine drives  *)
(* a SimPy environment: a future event list ordered by (time, priority,    *)
(* insertion number), one Resource per device (users + FIFO request queue) *)
(* and one generator process per sample.  Times are whole seconds, held    *)
(* in binary floating point with a significand of Mantissa bits: sums and  *)
(* products are exact below 2^Mantissa and rounded to nearest-even above.  *)
(***************************************************************************)
EXTENDS Integers, Sequences, FiniteSets, TLC

VARIABLES workflow, scenario, status, now, eid, queue, resources, procs,
          event_log, sample_start_times, sample_end_times, rng, summary,
          run_no, prev_events, prev_summary

vars == <<workflow, scenario, status, now, eid, queue, resources, procs,
          event_log, sample_start_times, sample_end_times, rng, summary,
          run_no, prev_events, prev_summary>>

-----------------------------------------------------------------------------
(* Bounds of the explored configurations *)

MaxSamples == 3
MaxSteps == 2
MaxCapacity == 2

(* Width of the floating-point significand *)
Mantissa == 10

(* SimPy scheduling priorities *)
URGENT == 0
NORMAL == 1

(* State space of the pseudo-random generator behind np.random *)
RngMod == 8

NoSeed == -1
NoLimit == 0
NoSummary == [none |-> TRUE]

-----------------------------------------------------------------------------
(* Arithmetic helpers *)

RECURSIVE GCD(_, _)
GCD(a, b) == IF b = 0 THEN a ELSE GCD(b, a % b)

(* Python true division n / d of non-negative integers, as a reduced fraction *)
Div(n, d) == LET g == GCD(n, d) IN <<n \div g, d \div g>>

Zero == <<0, 1>>

(* spacing of the floating-point numbers around x *)
RECURSIVE Ulp(_)
Ulp(x) == IF x < 2^Mantissa THEN 1 ELSE 2 * Ulp(x \div 2)

(* the float nearest to the non-negative number x, ties to even *)
Fl(x) ==
    LET u == Ulp(x)
        lo == (x \div u) * u
        r == x - lo
    IN IF 2 * r < u THEN lo
       ELSE IF 2 * r > u THEN lo + u
       ELSE IF (lo \div u) % 2 = 0 THEN lo ELSE lo + u

(* sum(...) of floats: accumulated from 0, left to right *)
RECURSIVE SumSeq(_)
SumSeq(s) == IF s = <<>> THEN 0
             ELSE Fl(SumSeq(SubSeq(s, 1, Len(s) - 1)) + s[Len(s)])

RECURSIVE MaxSeq(_)
MaxSeq(s) == IF Len(s) = 1 THEN s[1]
             ELSE LET m == MaxSeq(Tail(s)) IN IF s[1] >= m THEN s[1] ELSE m

RECURSIVE MinSeq(_)
MinSeq(s) == IF Len(s) = 1 THEN s[1]
             ELSE LET m == MinSeq(Tail(s)) IN IF s[1] <= m THEN s[1] ELSE m

RECURSIVE RemoveFirst(_, _)
RemoveFirst(s, x) == IF s = <<>> THEN <<>>
                     ELSE IF Head(s) = x THEN Tail(s)
                     ELSE <<Head(s)>> \o RemoveFirst(Tail(s), x)

-----------------------------------------------------------------------------
(* Timing sampler (timing.py) *)

(* a timing model is a dictionary: a record with exactly the keys given *)
Fixed(v) == [type |-> "fixed", value |-> v]
Triangular(a, b, c) == [type |-> "triangular", min |-> a, mode |-> b, max |-> c]
Exponential(m) == [type |-> "exponential", mean |-> m]

(* fault: the seed is not applied, the generator keeps its state *)
SeedIgnored(seed) == rng

(* np.random.seed(seed): the generator state is a function of the seed only *)
set_random_seed(seed) == seed % RngMod

(* one step of the generator *)
RngNext(r) == (5 * r + 3) % RngMod

Raise == [ok |-> FALSE, value |-> 0, rng |-> 0]

(* fault: a fixed duration is returned one second too long *)
sample_fixed_long(value, r) ==
    IF value < 0 THEN Raise ELSE [ok |-> TRUE, value |-> value + 1, rng |-> r]

sample_fixed(value, r) ==
    IF value < 0 THEN Raise ELSE [ok |-> TRUE, value |-> value, rng |-> r]

(* fault: a draw is made and thrown away when min = max *)
sample_triangular_draws(min_val, mode, max_val, r) ==
    IF min_val < 0 \/ mode < 0 \/ max_val < 0 THEN Raise
    ELSE IF ~(min_val <= mode /\ mode <= max_val) THEN Raise
    ELSE IF min_val = max_val THEN [ok |-> TRUE, value |-> min_val, rng |-> RngNext(r)]
    ELSE [ok |-> TRUE,
          value |-> min_val + (RngNext(r) % (max_val - min_val + 1)),
          rng |-> RngNext(r)]

sample_triangular(min_val, mode, max_val, r) ==
    IF min_val < 0 \/ mode < 0 \/ max_val < 0 THEN Raise
    ELSE IF ~(min_val <= mode /\ mode <= max_val) THEN Raise
    ELSE IF min_val = max_val THEN [ok |-> TRUE, value |-> min_val, rng |-> r]
    ELSE [ok |-> TRUE,
          value |-> min_val + (RngNext(r) % (max_val - min_val + 1)),
          rng |-> RngNext(r)]

(* fault: a mean of zero is accepted *)
sample_exponential_zero(mean, r) ==
    IF mean < 0 THEN Raise
    ELSE IF mean = 0 THEN [ok |-> TRUE, value |-> 0, rng |-> RngNext(r)]
    ELSE [ok |-> TRUE, value |-> 1 + (RngNext(r) % (2 * mean - 1)), rng |-> RngNext(r)]

sample_exponential(mean, r) ==
    IF mean <= 0 THEN Raise
    ELSE [ok |-> TRUE, value |-> 1 + (RngNext(r) % (2 * mean - 1)), rng |-> RngNext(r)]

sample_timing(timing_model, r) ==
    IF "type" \notin DOMAIN timing_model THEN Raise
    ELSE IF timing_model.type = "fixed"
         THEN IF "value" \notin DOMAIN timing_model THEN Raise
              ELSE sample_fixed(timing_model.value, r)
    ELSE IF timing_model.type = "triangular"
         THEN IF {"min", "mode", "max"} \ DOMAIN timing_model # {} THEN Raise
              ELSE sample_triangular(timing_model.min, timing_model.mode,
                                     timing_model.max, r)
    ELSE IF timing_model.type = "exponential"
         THEN IF "mean" \notin DOMAIN timing_model THEN Raise
              ELSE sample_exponential(timing_model.mean, r)
    ELSE Raise

-----------------------------------------------------------------------------
(* Workflow and scenario lookups *)

Devices == 1..Len(workflow.devices)

(* fault: every resource is built with capacity 1 *)
CapacityOne(d) == 1

Capacity(d) == workflow.devices[d].resource_capacity

NumSteps == Len(workflow.base_sequence)

(* next(op for op in operations if op.operation_id == id, None); 0 is None *)
FindOp(operation_id) ==
    LET hits == {i \in 1..Len(workflow.operations) :
                    workflow.operations[i].operation_id = operation_id}
    IN IF hits = {} THEN 0 ELSE CHOOSE i \in hits : \A j \in hits : i <= j

(* fault: every pattern type is accepted *)
SupportedAny == TRUE

Supported == scenario.pattern_type \in {"synchronized", "single"}

(* _compute_entry_times: SAMPLE_000 .. SAMPLE_(n-1), all entering at 0 *)
Samples == 0..(scenario.num_samples - 1)

-----------------------------------------------------------------------------
(* The engine state as one record, so that the straight-line code between  *)
(* two yields of a sample process composes as function application.        *)

EmptyMap == [x \in {} |-> 0]

Engine == [now |-> now, eid |-> eid, queue |-> queue, resources |-> resources,
           procs |-> procs, event_log |-> event_log,
           sample_start_times |-> sample_start_times,
           sample_end_times |-> sample_end_times, rng |-> rng]

(* fault: a timeout fires one second late *)
ScheduleLateTimeout(e, kind, prio, delay, s, d, ok) ==
    [e EXCEPT !.queue = @ \cup {[time |-> Fl(e.now + delay
                                             + (IF kind = "timeout" THEN 1 ELSE 0)),
                                 prio |-> prio, eid |-> e.eid,
                                 kind |-> kind, sample |-> s, dev |-> d, ok |-> ok]},
              !.eid = @ + 1]

(* Environment.schedule: heappush (now + delay, priority, next(eid), event) *)
Schedule(e, kind, prio, delay, s, d, ok) ==
    [e EXCEPT !.queue = @ \cup {[time |-> Fl(e.now + delay), prio |-> prio, eid |-> e.eid,
                                 kind |-> kind, sample |-> s, dev |-> d, ok |-> ok]},
              !.eid = @ + 1]

(* fault: the event list is served in insertion order, whatever the time *)
BeforeByInsertion(a, b) == a.eid < b.eid

(* fault: among events of the same time and priority the newest goes first *)
BeforeNewestFirst(a, b) ==
    \/ a.time < b.time
    \/ a.time = b.time /\ a.prio < b.prio
    \/ a.time = b.time /\ a.prio = b.prio /\ a.eid > b.eid

(* heap order of the future event list *)
Before(a, b) ==
    \/ a.time < b.time
    \/ a.time = b.time /\ a.prio < b.prio
    \/ a.time = b.time /\ a.prio = b.prio /\ a.eid < b.eid

(* fault: the stop event is popped after the other events of its instant *)
PopMinStopLast(q) ==
    CHOOSE a \in q : \A b \in q :
        \/ a = b
        \/ IF a.time = b.time /\ "until" \in {a.kind, b.kind}
           THEN b.kind = "until"
           ELSE Before(a, b)

(* heappop *)
PopMin(q) == CHOOSE a \in q : \A b \in q : a = b \/ Before(a, b)

(* fault: one request too many is granted *)
DoPutOffByOne(users, capacity) == Len(users) <= capacity

(* fault: every request is granted *)
DoPutAlways(users, capacity) == TRUE

(* Resource._do_put *)
DoPut(users, capacity) == Len(users) < capacity

(* fault: the queue head is granted only when the device is idle *)
TriggerPutWhenIdle(e, d) ==
    LET r == e.resources[d] IN
    IF Len(r.queue) > 0 /\ Len(r.users) = 0
    THEN Schedule([e EXCEPT !.resources[d] = [users |-> Append(r.users, Head(r.queue)),
                                               queue |-> Tail(r.queue)]],
                  "request", NORMAL, 0, Head(r.queue), d, TRUE)
    ELSE e

(* fault: a request is never granted *)
TriggerPutNever(e, d) == e

(* BaseResource._trigger_put with Resource._do_put: only the head of the   *)
(* request queue is examined (_do_put returns None, which ends the loop);  *)
(* a granted request joins users, leaves the queue and is scheduled.       *)
TriggerPut(e, d) ==
    LET r == e.resources[d] IN
    IF Len(r.queue) > 0 /\ DoPut(r.users, Capacity(d))
    THEN Schedule([e EXCEPT !.resources[d] = [users |-> Append(r.users, Head(r.queue)),
                                               queue |-> Tail(r.queue)]],
                  "request", NORMAL, 0, Head(r.queue), d, TRUE)
    ELSE e

(* fault: a new request goes to the head of the queue *)
RequestAtHead(e, s, d) ==
    TriggerPut([e EXCEPT !.resources[d].queue = <<s>> \o @], d)

(* fault: a request only joins the queue and waits for the next release *)
RequestQueuesOnly(e, s, d) == [e EXCEPT !.resources[d].queue = Append(@, s)]

(* device_resource.request(): append to the put queue, then _trigger_put *)
Request(e, s, d) ==
    TriggerPut([e EXCEPT !.resources[d].queue = Append(@, s)], d)

(* fault: the slot of the oldest holder is released, whoever asks *)
ReleaseOldest(e, s, d) ==
    Schedule([e EXCEPT !.resources[d].users = Tail(@)],
             "release", NORMAL, 0, s, d, TRUE)

(* fault: the released slot is never given back *)
ReleaseKeepsSlot(e, s, d) ==
    Schedule(e, "release", NORMAL, 0, s, d, TRUE)

(* Request.__exit__ -> resource.release(req): the user is removed at once  *)
(* and the Release event (callback _trigger_put) is scheduled.             *)
Release(e, s, d) ==
    Schedule([e EXCEPT !.resources[d].users = RemoveFirst(@, s)],
             "release", NORMAL, 0, s, d, TRUE)

(* SimulationEvent.__post_init__ *)
ValidEvent(ev) ==
    /\ ev.timestamp >= 0
    /\ ev.event_type \in {"QUEUED", "START", "COMPLETE", "RELEASED"}
    /\ ev.duration >= 0
    /\ ev.wait_time >= 0
    /\ ev.device_queue_length >= 0

(* fault: the waiting time is stored with the wrong sign *)
SimulationEventNegatedWait(t, type, s, op, d, dur, wait, qlen) ==
    [timestamp |-> t, event_type |-> type, sample_id |-> s, operation_id |-> op,
     device_id |-> d, duration |-> dur, wait_time |-> 0 - wait,
     device_queue_length |-> qlen]

SimulationEvent(t, type, s, op, d, dur, wait, qlen) ==
    [timestamp |-> t, event_type |-> type, sample_id |-> s, operation_id |-> op,
     device_id |-> d, duration |-> dur, wait_time |-> wait,
     device_queue_length |-> qlen]

(* fault: the exception of a sample process is swallowed *)
FailIgnored(e, s) == [e EXCEPT !.procs[s].pc = "failed"]

(* An exception leaves the generator: the process event fails and is       *)
(* scheduled; Environment.step re-raises it when it is popped.             *)
Fail(e, s) ==
    Schedule([e EXCEPT !.procs[s].pc = "failed"], "process", NORMAL, 0, s, 0, FALSE)

(* fault: the steps are taken from the end of the list *)
EnterStepBackwards(e, s) ==
    LET i == e.procs[s].step IN
    IF i > NumSteps
    THEN Schedule([e EXCEPT !.sample_end_times = (s :> e.now) @@ @,
                            !.procs[s].pc = "done"],
                  "process", NORMAL, 0, s, 0, TRUE)
    ELSE LET operation_id == workflow.base_sequence[NumSteps + 1 - i].operation_id
             op == FindOp(operation_id)
         IN IF op = 0 THEN Fail(e, s)
            ELSE LET device_id == workflow.operations[op].device_id
                     queue_len == Len(e.resources[device_id].queue)
                     ev == SimulationEvent(e.now, "QUEUED", s, operation_id,
                                           device_id, 0, 0, queue_len)
                 IN Request([e EXCEPT !.event_log = Append(@, ev),
                                      !.procs[s].pc = "request",
                                      !.procs[s].queue_start_time = e.now],
                            s, device_id)

(* _sample_process, top of the for loop up to `yield req`, or the code     *)
(* after the loop when no step is left.                                    *)
(* fault: the queue is measured after the request, the requester included *)
EnterStepCountsItself(e, s) ==
    LET i == e.procs[s].step IN
    IF i > NumSteps
    THEN Schedule([e EXCEPT !.sample_end_times = (s :> e.now) @@ @,
                            !.procs[s].pc = "done"],
                  "process", NORMAL, 0, s, 0, TRUE)
    ELSE LET operation_id == workflow.base_sequence[i].operation_id
             op == FindOp(operation_id)
         IN IF op = 0 THEN Fail(e, s)
            ELSE IF workflow.operations[op].device_id \notin DOMAIN e.resources
                 THEN Fail(e, s)
            ELSE LET device_id == workflow.operations[op].device_id
                     queue_len == Len(Request(e, s, device_id).resources[device_id].queue)
                     ev == SimulationEvent(e.now, "QUEUED", s, operation_id,
                                           device_id, 0, 0, queue_len)
                 IN IF ~ValidEvent(ev) THEN Fail(e, s)
                    ELSE Request([e EXCEPT !.event_log = Append(@, ev),
                                           !.procs[s].pc = "request",
                                           !.procs[s].queue_start_time = e.now],
                                 s, device_id)

EnterStep(e, s) ==
    LET i == e.procs[s].step IN
    IF i > NumSteps
    THEN Schedule([e EXCEPT !.sample_end_times = (s :> e.now) @@ @,
                            !.procs[s].pc = "done"],
                  "process", NORMAL, 0, s, 0, TRUE)
    ELSE LET operation_id == workflow.base_sequence[i].operation_id
             op == FindOp(operation_id)
         IN IF op = 0 THEN Fail(e, s)
            ELSE IF workflow.operations[op].device_id \notin DOMAIN e.resources
                 THEN Fail(e, s)
            ELSE LET device_id == workflow.operations[op].device_id
                     queue_len == Len(e.resources[device_id].queue)
                     ev == SimulationEvent(e.now, "QUEUED", s, operation_id,
                                           device_id, 0, 0, queue_len)
                 IN IF ~ValidEvent(ev) THEN Fail(e, s)
                    ELSE Request([e EXCEPT !.event_log = Append(@, ev),
                                           !.procs[s].pc = "request",
                                           !.procs[s].queue_start_time = e.now],
                                 s, device_id)

(* fault: the end timestamp is recorded when the sample enters *)
ResumeInitializeEnds(e, s) ==
    EnterStep([e EXCEPT !.sample_start_times = (s :> e.now) @@ @,
                        !.sample_end_times = (s :> e.now) @@ @], s)

(* _sample_process from its first line: entry_time is 0, so no timeout *)
ResumeInitialize(e, s) ==
    EnterStep([e EXCEPT !.sample_start_times = (s :> e.now) @@ @], s)

(* fault: the waiting time is counted from time 0, not from the request *)
ResumeRequestWaitFromZero(e, s) ==
    LET i == e.procs[s].step
        operation_id == workflow.base_sequence[i].operation_id
        op_def == workflow.operations[FindOp(operation_id)]
        device_id == op_def.device_id
        wait_time == e.now
        ev == SimulationEvent(e.now, "START", s, operation_id, device_id,
                              0, wait_time, 0)
        drawn == sample_timing(op_def.timing, e.rng)
    IN IF ~ValidEvent(ev) THEN Fail(Release(e, s, device_id), s)
       ELSE LET e1 == [e EXCEPT !.event_log = Append(@, ev),
                                !.procs[s].wait_time = wait_time]
            IN IF ~drawn.ok THEN Fail(Release(e1, s, device_id), s)
               ELSE Schedule([e1 EXCEPT !.rng = drawn.rng,
                                        !.procs[s].duration = drawn.value,
                                        !.procs[s].pc = "timeout"],
                             "timeout", NORMAL, drawn.value, s, 0, TRUE)

(* _sample_process after `yield req`: START, draw the duration, timeout *)
ResumeRequest(e, s) ==
    LET i == e.procs[s].step
        operation_id == workflow.base_sequence[i].operation_id
        op_def == workflow.operations[FindOp(operation_id)]
        device_id == op_def.device_id
        wait_time == Fl(e.now - e.procs[s].queue_start_time)
        ev == SimulationEvent(e.now, "START", s, operation_id, device_id,
                              0, wait_time, 0)
        drawn == sample_timing(op_def.timing, e.rng)
    IN IF ~ValidEvent(ev) THEN Fail(Release(e, s, device_id), s)
       ELSE LET e1 == [e EXCEPT !.event_log = Append(@, ev),
                                !.procs[s].wait_time = wait_time]
            IN IF ~drawn.ok THEN Fail(Release(e1, s, device_id), s)
               ELSE Schedule([e1 EXCEPT !.rng = drawn.rng,
                                        !.procs[s].duration = drawn.value,
                                        !.procs[s].pc = "timeout"],
                             "timeout", NORMAL, drawn.value, s, 0, TRUE)

(* fault: the COMPLETE event is not logged *)
ResumeTimeoutSilent(e, s) ==
    LET i == e.procs[s].step
        operation_id == workflow.base_sequence[i].operation_id
        device_id == workflow.operations[FindOp(operation_id)].device_id
    IN EnterStep([Release(e, s, device_id) EXCEPT !.procs[s].step = i + 1], s)

(* _sample_process after `yield env.timeout(duration)`: COMPLETE, leave    *)
(* the with block (release), then the next iteration of the loop.          *)
ResumeTimeout(e, s) ==
    LET i == e.procs[s].step
        operation_id == workflow.base_sequence[i].operation_id
        device_id == workflow.operations[FindOp(operation_id)].device_id
        ev == SimulationEvent(e.now, "COMPLETE", s, operation_id, device_id,
                              e.procs[s].duration, e.procs[s].wait_time, 0)
    IN IF ~ValidEvent(ev) THEN Fail(Release(e, s, device_id), s)
       ELSE EnterStep([Release([e EXCEPT !.event_log = Append(@, ev)], s, device_id)
                          EXCEPT !.procs[s].step = i + 1], s)

-----------------------------------------------------------------------------
(* Statistics (_compute_summary and SimulationSummary.__post_init__) *)

Durations(evs) == [k \in 1..Len(evs) |-> evs[k].duration]

WaitTimes(evs) == [k \in 1..Len(evs) |-> evs[k].wait_time]

QueueLengths(evs) == [k \in 1..Len(evs) |-> evs[k].device_queue_length]

Positive(x) == x > 0

(* cycle times of the samples that have an end time, in insertion order of *)
(* _sample_end_times (the order is irrelevant for mean, min and max)       *)
RECURSIVE CycleTimes(_, _, _)
CycleTimes(ends, starts, todo) ==
    IF todo = {} THEN <<>>
    ELSE LET s == CHOOSE x \in todo : \A y \in todo : x <= y
         IN (IF s \in DOMAIN starts THEN <<Fl(ends[s] - starts[s])>> ELSE <<>>)
            \o CycleTimes(ends, starts, todo \ {s})

Utilization(e, d) ==
    LET device_events == SelectSeq(e.event_log,
                            LAMBDA x : x.device_id = d /\ x.event_type = "COMPLETE")
        total_busy_time == SumSeq(Durations(device_events))
        max_possible_time == Fl(Capacity(d) * e.now)
    IN IF max_possible_time > 0 THEN Div(total_busy_time, max_possible_time) ELSE Zero

(* fault: the starts that did not wait are averaged in *)
DeviceQueueStatsAllStarts(e, d) ==
    LET queued_events == SelectSeq(e.event_log,
                            LAMBDA x : x.device_id = d /\ x.event_type = "QUEUED")
        start_events == SelectSeq(e.event_log,
                            LAMBDA x : x.device_id = d /\ x.event_type = "START")
        wait_times == WaitTimes(start_events)
    IN [max_queue_length |-> IF queued_events = <<>> THEN 0
                             ELSE MaxSeq(QueueLengths(queued_events)),
        avg_queue_time |-> IF wait_times = <<>> THEN Zero
                           ELSE Div(SumSeq(wait_times), Len(wait_times)),
        total_queue_time |-> SumSeq(wait_times),
        queue_events |-> Len(wait_times)]

DeviceQueueStats(e, d) ==
    LET queued_events == SelectSeq(e.event_log,
                            LAMBDA x : x.device_id = d /\ x.event_type = "QUEUED")
        start_events == SelectSeq(e.event_log,
                            LAMBDA x : x.device_id = d /\ x.event_type = "START")
        wait_times == SelectSeq(WaitTimes(start_events), Positive)
    IN [max_queue_length |-> IF queued_events = <<>> THEN 0
                             ELSE MaxSeq(QueueLengths(queued_events)),
        avg_queue_time |-> IF wait_times = <<>> THEN Zero
                           ELSE Div(SumSeq(wait_times), Len(wait_times)),
        total_queue_time |-> SumSeq(wait_times),
        queue_events |-> Len(wait_times)]

(* fault: the starts that did not wait are counted as wait events *)
OperationWaitStatsAllStarts(e, op_id) ==
    LET start_events == SelectSeq(e.event_log,
                            LAMBDA x : x.operation_id = op_id /\ x.event_type = "START")
        wait_times == SelectSeq(WaitTimes(start_events), Positive)
    IN [mean_wait |-> IF wait_times = <<>> THEN Zero
                      ELSE Div(SumSeq(wait_times), Len(wait_times)),
        total_wait |-> SumSeq(wait_times),
        wait_events |-> Len(start_events)]

OperationWaitStats(e, op_id) ==
    LET start_events == SelectSeq(e.event_log,
                            LAMBDA x : x.operation_id = op_id /\ x.event_type = "START")
        wait_times == SelectSeq(WaitTimes(start_events), Positive)
    IN [mean_wait |-> IF wait_times = <<>> THEN Zero
                      ELSE Div(SumSeq(wait_times), Len(wait_times)),
        total_wait |-> SumSeq(wait_times),
        wait_events |-> Len(wait_times)]

(* the standard deviation is irrational in general and is left out *)
OperationStats(e, op_id) ==
    LET complete_events == SelectSeq(e.event_log,
                              LAMBDA x : x.operation_id = op_id /\ x.event_type = "COMPLETE")
        durations == Durations(complete_events)
    IN IF durations = <<>>
       THEN [mean_duration |-> Zero, min_duration |-> 0, max_duration |-> 0,
             sample_count |-> 0]
       ELSE [mean_duration |-> Div(SumSeq(durations), Len(durations)),
             min_duration |-> MinSeq(durations), max_duration |-> MaxSeq(durations),
             sample_count |-> Len(durations)]

(* a / b > c / d for fractions with positive denominators *)
Greater(x, y) == x[1] * y[2] > y[1] * x[2]

(* devices are named by their position in the device list; the empty     *)
(* string of `bottleneck_device = ""` names none of them                   *)
NoDevice == 0

(* fault: the last of the devices of highest utilization is reported *)
BottleneckLast(util) ==
    CHOOSE d \in DOMAIN util :
        /\ \A o \in DOMAIN util : ~Greater(util[o], util[d])
        /\ \A o \in DOMAIN util : o > d => Greater(util[d], util[o])

(* max(device_utilization.items(), key=...)[0]: the first maximal entry *)
Bottleneck(util) ==
    CHOOSE d \in DOMAIN util :
        /\ \A o \in DOMAIN util : ~Greater(util[o], util[d])
        /\ \A o \in DOMAIN util : o < d => Greater(util[d], util[o])

OperationIds == {workflow.operations[i].operation_id : i \in 1..Len(workflow.operations)}

(* fault: the throughput counts the samples launched, finished or not *)
ComputeSummaryPerLaunched(e) ==
    LET total_time == e.now
        num_completed == Cardinality(DOMAIN e.sample_end_times)
        cycle_times == CycleTimes(e.sample_end_times, e.sample_start_times,
                                  DOMAIN e.sample_end_times)
        device_utilization == [d \in Devices |-> Utilization(e, d)]
        device_queue_stats == [d \in Devices |-> DeviceQueueStats(e, d)]
    IN [total_simulation_time |-> total_time,
        num_samples_completed |-> num_completed,
        num_samples_failed |-> 0,
        device_utilization |-> device_utilization,
        device_queue_stats |-> device_queue_stats,
        operation_stats |-> [o \in OperationIds |-> OperationStats(e, o)],
        operation_wait_times |-> [o \in OperationIds |-> OperationWaitStats(e, o)],
        total_throughput |-> IF total_time > 0 THEN Div(scenario.num_samples, total_time)
                             ELSE Zero,
        mean_sample_cycle_time |-> IF cycle_times = <<>> THEN Zero
                                   ELSE Div(SumSeq(cycle_times), Len(cycle_times)),
        min_sample_cycle_time |-> IF cycle_times = <<>> THEN 0 ELSE MinSeq(cycle_times),
        max_sample_cycle_time |-> IF cycle_times = <<>> THEN 0 ELSE MaxSeq(cycle_times),
        bottleneck_device |-> IF Devices # {} THEN Bottleneck(device_utilization)
                              ELSE NoDevice,
        bottleneck_utilization |-> IF Devices # {}
                                   THEN device_utilization[Bottleneck(device_utilization)]
                                   ELSE Zero,
        bottleneck_queue_delay |-> IF Devices # {}
                                   THEN device_queue_stats[Bottleneck(device_utilization)].avg_queue_time
                                   ELSE Zero]

(* _compute_summary *)
ComputeSummary(e) ==
    LET total_time == e.now
        num_completed == Cardinality(DOMAIN e.sample_end_times)
        cycle_times == CycleTimes(e.sample_end_times, e.sample_start_times,
                                  DOMAIN e.sample_end_times)
        device_utilization == [d \in Devices |-> Utilization(e, d)]
        device_queue_stats == [d \in Devices |-> DeviceQueueStats(e, d)]
    IN [total_simulation_time |-> total_time,
        num_samples_completed |-> num_completed,
        num_samples_failed |-> 0,
        device_utilization |-> device_utilization,
        device_queue_stats |-> device_queue_stats,
        operation_stats |-> [o \in OperationIds |-> OperationStats(e, o)],
        operation_wait_times |-> [o \in OperationIds |-> OperationWaitStats(e, o)],
        total_throughput |-> IF total_time > 0 THEN Div(num_completed, total_time) ELSE Zero,
        mean_sample_cycle_time |-> IF cycle_times = <<>> THEN Zero
                                   ELSE Div(SumSeq(cycle_times), Len(cycle_times)),
        min_sample_cycle_time |-> IF cycle_times = <<>> THEN 0 ELSE MinSeq(cycle_times),
        max_sample_cycle_time |-> IF cycle_times = <<>> THEN 0 ELSE MaxSeq(cycle_times),
        bottleneck_device |-> IF Devices # {} THEN Bottleneck(device_utilization)
                              ELSE NoDevice,
        bottleneck_utilization |-> IF Devices # {}
                                   THEN device_utilization[Bottleneck(device_utilization)]
                                   ELSE Zero,
        bottleneck_queue_delay |-> IF Devices # {}
                                   THEN device_queue_stats[Bottleneck(device_utilization)].avg_queue_time
                                   ELSE Zero]

(* SimulationSummary.__post_init__ *)
ValidSummary(sm) ==
    /\ sm.total_simulation_time >= 0
    /\ sm.num_samples_completed >= 0
    /\ sm.num_samples_failed >= 0
    /\ sm.total_throughput[1] >= 0
    /\ \A d \in DOMAIN sm.device_utilization :
          /\ sm.device_utilization[d][1] >= 0
          /\ sm.device_utilization[d][1] <= sm.device_utilization[d][2]

-----------------------------------------------------------------------------
(* Validation (validators.py).  The errors of a validator are the set of   *)
(* the kinds of message it appends.  The fields the engine never reads     *)
(* (workflow_id, names, scheduling_policy, operation_type, sequence_id)    *)
(* are taken as present.                                                   *)

(* `if device_id and ...`, `if op_id and ...`: 0 and "" are false *)
TruthyDevice(device_id) == device_id # NoDevice
TruthyOperation(op_id) == op_id # ""

(* _validate_schema *)
WorkflowSchemaErrors(w) ==
    (IF Len(w.devices) = 0 THEN {"no device"} ELSE {})
    \cup (IF Len(w.operations) = 0 THEN {"no operation"} ELSE {})
    \cup (IF Len(w.base_sequence) = 0 THEN {"no sequence step"} ELSE {})

(* _validate_device_references *)
DeviceReferenceErrors(w) ==
    LET device_ids == {w.devices[k].device_id : k \in 1..Len(w.devices)}
    IN IF \E k \in 1..Len(w.operations) :
              /\ TruthyDevice(w.operations[k].device_id)
              /\ w.operations[k].device_id \notin device_ids
       THEN {"unknown device"} ELSE {}

(* _validate_operation_references *)
OperationReferenceErrors(w) ==
    LET operation_ids == {w.operations[k].operation_id : k \in 1..Len(w.operations)}
    IN (IF \E i \in 1..Len(w.base_sequence) :
              /\ TruthyOperation(w.base_sequence[i].operation_id)
              /\ w.base_sequence[i].operation_id \notin operation_ids
        THEN {"unknown operation"} ELSE {})
       \cup
       (IF \E i \in 1..Len(w.base_sequence) :
              \E k \in 1..Len(w.base_sequence[i].predecessors) :
                  w.base_sequence[i].predecessors[k] \notin operation_ids
        THEN {"unknown predecessor"} ELSE {})

(* predecessors_map[op_id] = preds: a later step of the same operation     *)
(* overwrites the entry; .get(node, []) gives no predecessors to a node    *)
(* that is no key                                                          *)
PredecessorsMap(w, node) ==
    LET at == {i \in 1..Len(w.base_sequence) : w.base_sequence[i].operation_id = node}
    IN IF at = {} THEN <<>>
       ELSE w.base_sequence[CHOOSE i \in at : \A j \in at : j <= i].predecessors

(* the keys of predecessors_map in insertion order *)
MapKeys(w) ==
    SelectSeq([i \in 1..Len(w.base_sequence) |-> i],
              LAMBDA i : \A j \in 1..(i - 1) :
                  w.base_sequence[j].operation_id # w.base_sequence[i].operation_id)

(* has_cycle(node, visited, rec_stack) and its loop over the predecessors; *)
(* the sets are shared by reference, so the result carries them            *)
RECURSIVE has_cycle(_, _, _, _)
RECURSIVE VisitPredecessors(_, _, _, _, _)
has_cycle(w, node, visited, rec_stack) ==
    LET r == VisitPredecessors(w, PredecessorsMap(w, node), 1,
                               visited \cup {node}, rec_stack \cup {node})
    IN IF r.found THEN r
       ELSE [found |-> FALSE, visited |-> r.visited, rec_stack |-> r.rec_stack \ {node}]

VisitPredecessors(w, preds, k, visited, rec_stack) ==
    IF k > Len(preds)
    THEN [found |-> FALSE, visited |-> visited, rec_stack |-> rec_stack]
    ELSE IF preds[k] \notin visited
         THEN LET r == has_cycle(w, preds[k], visited, rec_stack)
              IN IF r.found THEN r
                 ELSE VisitPredecessors(w, preds, k + 1, r.visited, r.rec_stack)
    ELSE IF preds[k] \in rec_stack
         THEN [found |-> TRUE, visited |-> visited, rec_stack |-> rec_stack]
    ELSE VisitPredecessors(w, preds, k + 1, visited, rec_stack)

(* the loop over the keys of predecessors_map: one visited set, a new      *)
(* rec_stack for every root, stop at the first cycle                       *)
RECURSIVE CycleFrom(_, _, _)
CycleFrom(w, k, visited) ==
    IF k > Len(MapKeys(w)) THEN FALSE
    ELSE LET op_id == w.base_sequence[MapKeys(w)[k]].operation_id
         IN IF op_id \in visited THEN CycleFrom(w, k + 1, visited)
            ELSE LET r == has_cycle(w, op_id, visited, {})
                 IN r.found \/ CycleFrom(w, k + 1, r.visited)

(* _validate_dag *)
DagErrors(w) == IF CycleFrom(w, 1, {}) THEN {"circular dependency"} ELSE {}

(* _validate_timing_models: the conditions of sample_timing, on every      *)
(* operation                                                               *)
TimingModelErrors(w) ==
    IF \E k \in 1..Len(w.operations) :
          LET timing == w.operations[k].timing
          IN /\ DOMAIN timing # {}
             /\ \/ "type" \notin DOMAIN timing
                \/ /\ "type" \in DOMAIN timing
                   /\ IF timing.type = "fixed"
                      THEN \/ "value" \notin DOMAIN timing
                           \/ "value" \in DOMAIN timing /\ timing.value < 0
                      ELSE IF timing.type = "triangular"
                      THEN \/ {"min", "mode", "max"} \ DOMAIN timing # {}
                           \/ /\ {"min", "mode", "max"} \subseteq DOMAIN timing
                              /\ \/ timing.min < 0 \/ timing.mode < 0 \/ timing.max < 0
                                 \/ ~(timing.min <= timing.mode /\ timing.mode <= timing.max)
                      ELSE IF timing.type = "exponential"
                      THEN \/ "mean" \notin DOMAIN timing
                           \/ "mean" \in DOMAIN timing /\ timing.mean <= 0
                      ELSE TRUE
    THEN {"timing"} ELSE {}

(* _validate_resource_capacity *)
ResourceCapacityErrors(w) ==
    IF \E k \in 1..Len(w.devices) : w.devices[k].resource_capacity < 1
    THEN {"capacity"} ELSE {}

(* WorkflowValidator.validate: the logical checks run only on a workflow   *)
(* that passes the schema check                                            *)
WorkflowErrors(w) ==
    IF WorkflowSchemaErrors(w) # {} THEN WorkflowSchemaErrors(w)
    ELSE DeviceReferenceErrors(w) \cup OperationReferenceErrors(w) \cup DagErrors(w)
         \cup TimingModelErrors(w) \cup ResourceCapacityErrors(w)

(* ScenarioValidator.validate, on the fields of a scenario the engine reads *)
ScenarioErrors(sc) ==
    (IF sc.pattern_type \notin {"synchronized", "single"} THEN {"pattern_type"} ELSE {})
    \cup (IF sc.num_samples < 1 THEN {"num_samples"} ELSE {})
    \cup (IF sc.pattern_type = "single" /\ sc.num_samples # 0 /\ sc.num_samples # 1
          THEN {"single"} ELSE {})
    \cup (IF sc.max_simulation_time # NoLimit /\ sc.max_simulation_time <= 0
          THEN {"max_simulation_time"} ELSE {})

-----------------------------------------------------------------------------
(* Configurations *)

(* timing of op1 and of op2 *)
TimingPairs ==
    {<<Fixed(10), Fixed(5)>>, <<Fixed(0), Fixed(5)>>,
     <<Fixed(10), Triangular(1, 2, 3)>>, <<Exponential(2), Triangular(1, 2, 3)>>}

Device(id, capacity) == [device_id |-> id, resource_capacity |-> capacity]

(* one device, or two devices of which the second has capacity 1 *)
DeviceLists ==
    {<<Device(1, c)>> : c \in 1..MaxCapacity}
    \cup {<<Device(1, c), Device(2, 1)>> : c \in 1..MaxCapacity}

Step(operation_id) == [operation_id |-> operation_id, predecessors |-> <<>>]

StepAfter(operation_id, predecessors) ==
    [operation_id |-> operation_id, predecessors |-> predecessors]

(* "opX" is not declared in operations; in the last two sequences the      *)
(* predecessors name the list order and its reverse                        *)
BaseSequences ==
    UNION {[1..n -> {Step("op1"), Step("op2")}] : n \in 0..MaxSteps}
    \cup {<<Step("opX")>>, <<Step("op1"), Step("opX")>>}
    \cup {<<Step("op1"), StepAfter("op2", <<"op1">>)>>,
          <<StepAfter("op1", <<"op2">>), Step("op2")>>}

(* op1 runs on the first device, op2 on the last one *)
(* a workflow without devices and operations: its samples have nothing to  *)
(* do, or meet an operation that is not declared                           *)
NoDeviceWorkflows ==
    {[devices |-> <<>>, operations |-> <<>>, base_sequence |-> seq] :
        seq \in {<<>>, <<Step("op1")>>}}

Workflows ==
    {[devices |-> devs,
      operations |-> <<[operation_id |-> "op1", device_id |-> 1, timing |-> t[1]],
                       [operation_id |-> "op2", device_id |-> Len(devs), timing |-> t[2]]>>,
      base_sequence |-> seq] :
        devs \in DeviceLists, t \in TimingPairs, seq \in BaseSequences}
    \cup NoDeviceWorkflows

Seeds == {NoSeed, 5}
Cutoffs == {NoLimit, 10}

(* max_simulation_time of the simple_scenario fixture *)
TestCutoff == 1000

Scenario(pattern_type, num_samples, random_seed, max_simulation_time) ==
    [pattern_type |-> pattern_type, num_samples |-> num_samples,
     random_seed |-> random_seed, max_simulation_time |-> max_simulation_time]

Scenarios ==
    {Scenario("synchronized", n, sd, mt) : n \in 1..MaxSamples, sd \in Seeds, mt \in Cutoffs}
    \cup {Scenario("single", 1, sd, mt) : sd \in Seeds, mt \in Cutoffs}
    \cup {Scenario("single", 1, 5, TestCutoff)}
    \cup {Scenario("single", 2, NoSeed, NoLimit)}
    \cup {Scenario("poisson", 1, NoSeed, NoLimit)}

-----------------------------------------------------------------------------
(* Actions *)

(* SimulationEngine.__init__ *)
Fresh ==
    /\ now = 0
    /\ eid = 0
    /\ queue = {}
    /\ resources = EmptyMap
    /\ procs = EmptyMap
    /\ event_log = <<>>
    /\ sample_start_times = EmptyMap
    /\ sample_end_times = EmptyMap
    /\ summary = NoSummary
    /\ status = "constructed"

Init ==
    /\ workflow \in Workflows
    /\ scenario \in Scenarios
    /\ rng = 1
    /\ Fresh
    /\ run_no = 1
    /\ prev_events = <<>>
    /\ prev_summary = NoSummary

Commit(e) ==
    /\ now' = e.now
    /\ eid' = e.eid
    /\ queue' = e.queue
    /\ resources' = e.resources
    /\ procs' = e.procs
    /\ event_log' = e.event_log
    /\ sample_start_times' = e.sample_start_times
    /\ sample_end_times' = e.sample_end_times
    /\ rng' = e.rng

NewProc == [pc |-> "new", step |-> 1, queue_start_time |-> 0, wait_time |-> 0,
            duration |-> 0]

(* run() up to the call of env.run: seed, resources, entry times, one      *)
(* process per sample (its Initialize event is URGENT at time 0), and the  *)
(* URGENT stop event that env.run(until=max_time) schedules.               *)
Run ==
    /\ status = "constructed"
    /\ rng' = IF scenario.random_seed # NoSeed
              THEN set_random_seed(scenario.random_seed) ELSE rng
    /\ resources' = [d \in Devices |-> [users |-> <<>>, queue |-> <<>>]]
    /\ IF ~Supported
       THEN /\ status' = "error"
            /\ UNCHANGED <<now, eid, queue, procs>>
       ELSE /\ status' = "running"
            /\ procs' = [s \in Samples |-> NewProc]
            /\ queue' = {[time |-> 0, prio |-> URGENT, eid |-> s, kind |-> "initialize",
                          sample |-> s, dev |-> 0, ok |-> TRUE] : s \in Samples}
                        \cup (IF scenario.max_simulation_time # NoLimit
                              THEN {[time |-> scenario.max_simulation_time, prio |-> URGENT,
                                     eid |-> scenario.num_samples, kind |-> "until",
                                     sample |-> 0, dev |-> 0, ok |-> TRUE]}
                              ELSE {})
            /\ eid' = scenario.num_samples
                      + (IF scenario.max_simulation_time # NoLimit THEN 1 ELSE 0)
            /\ UNCHANGED now
    /\ UNCHANGED <<workflow, scenario, event_log, sample_start_times, sample_end_times,
                   summary, run_no, prev_events, prev_summary>>

(* fault: the clock runs one second past the popped event *)
PoppedLate ==
    [Engine EXCEPT !.queue = queue \ {PopMin(queue)}, !.now = PopMin(queue).time + 1]

(* Environment.step: pop the next event, advance the clock *)
Popped == [Engine EXCEPT !.queue = queue \ {PopMin(queue)}, !.now = PopMin(queue).time]

Stepping(kind) ==
    /\ status = "running"
    /\ queue # {}
    /\ PopMin(queue).kind = kind

Rest == UNCHANGED <<workflow, scenario, status, summary, run_no, prev_events, prev_summary>>

(* fault: the sample processes are started in reverse index order *)
StepInitializeReversed ==
    /\ Stepping("initialize")
    /\ Commit(ResumeInitialize(Popped, scenario.num_samples - 1 - PopMin(queue).sample))
    /\ Rest

StepInitialize ==
    /\ Stepping("initialize")
    /\ Commit(ResumeInitialize(Popped, PopMin(queue).sample))
    /\ Rest

StepRequest ==
    /\ Stepping("request")
    /\ Commit(ResumeRequest(Popped, PopMin(queue).sample))
    /\ Rest

StepTimeout ==
    /\ Stepping("timeout")
    /\ Commit(ResumeTimeout(Popped, PopMin(queue).sample))
    /\ Rest

(* fault: the Release event has no callback *)
StepReleaseIdle ==
    /\ Stepping("release")
    /\ Commit(Popped)
    /\ Rest

StepRelease ==
    /\ Stepping("release")
    /\ Commit(TriggerPut(Popped, PopMin(queue).dev))
    /\ Rest

(* the event of a finished process has no callbacks *)
StepProcess ==
    /\ Stepping("process")
    /\ PopMin(queue).ok
    /\ Commit(Popped)
    /\ Rest

(* Environment.step re-raises the exception of a failed process: env.run   *)
(* and run() propagate it, no summary is computed                          *)
StepProcessFailed ==
    /\ Stepping("process")
    /\ ~PopMin(queue).ok
    /\ Commit(Popped)
    /\ status' = "error"
    /\ UNCHANGED <<workflow, scenario, summary, run_no, prev_events, prev_summary>>

(* end of env.run, then _compute_summary; an invalid summary raises *)
Summarize(e) ==
    /\ Commit(e)
    /\ IF ValidSummary(ComputeSummary(e))
       THEN status' = "done" /\ summary' = ComputeSummary(e)
       ELSE status' = "error" /\ summary' = NoSummary
    /\ UNCHANGED <<workflow, scenario, run_no, prev_events, prev_summary>>

(* fault: the stop event is popped and the run goes on *)
StepUntilGoesOn ==
    /\ Stepping("until")
    /\ Commit(Popped)
    /\ Rest

(* the stop event is popped: StopSimulation ends env.run at max_time *)
StepUntil ==
    /\ Stepping("until")
    /\ Summarize(Popped)

(* EmptySchedule ends env.run *)
Finish ==
    /\ status = "running"
    /\ queue = {}
    /\ Summarize(Engine)

(* a second engine is built for the same workflow and seeded scenario, as  *)
(* in test_same_seed_produces_identical_results; the generator state of    *)
(* np.random is process-wide and survives                                  *)
NewEngine ==
    /\ status \in {"done", "error"}
    /\ scenario.random_seed # NoSeed
    /\ run_no = 1
    /\ run_no' = 2
    /\ prev_events' = event_log
    /\ prev_summary' = summary
    /\ now' = 0
    /\ eid' = 0
    /\ queue' = {}
    /\ resources' = EmptyMap
    /\ procs' = EmptyMap
    /\ event_log' = <<>>
    /\ sample_start_times' = EmptyMap
    /\ sample_end_times' = EmptyMap
    /\ summary' = NoSummary
    /\ status' = "constructed"
    /\ UNCHANGED <<workflow, scenario, rng>>

Next ==
    \/ Run
    \/ StepInitialize
    \/ StepRequest
    \/ StepTimeout
    \/ StepRelease
    \/ StepProcess
    \/ StepProcessFailed
    \/ StepUntil
    \/ Finish
    \/ NewEngine

Spec == Init /\ [][Next]_vars

-----------------------------------------------------------------------------
(* Runs whose durations do not add up exactly in floating point: 512 + 3   *)
(* is exact, 512 + 512 + 3 is not.                                         *)

FloatWorkflows ==
    {[devices |-> <<Device(1, c)>>,
      operations |-> <<[operation_id |-> "op1", device_id |-> 1, timing |-> Fixed(512)],
                       [operation_id |-> "op2", device_id |-> 1, timing |-> Fixed(3)]>>,
      base_sequence |-> seq] :
        c \in 1..MaxCapacity,
        seq \in {<<Step("op1"), Step("op2")>>, <<Step("op2"), Step("op1")>>,
                 <<Step("op1"), Step("opX")>>}}

FloatScenarios ==
    {Scenario("synchronized", n, sd, mt) :
        n \in 1..MaxSamples, sd \in Seeds, mt \in {NoLimit, TestCutoff}}

FloatInit ==
    /\ workflow \in FloatWorkflows
    /\ scenario \in FloatScenarios
    /\ rng = 1
    /\ Fresh
    /\ run_no = 1
    /\ prev_events = <<>>
    /\ prev_summary = NoSummary

FloatSpec == FloatInit /\ [][Next]_vars

-----------------------------------------------------------------------------
(* Runs over timing models as sample_timing can be handed them: complete,  *)
(* lacking a key, of an unknown type, or with parameters out of range      *)
(* (test_timing.py, TestSampleTiming)                                      *)

WellFormedTimings == {Fixed(5), Triangular(1, 2, 3), Triangular(2, 2, 2), Exponential(2)}

MalformedTimings ==
    {[value |-> 10],
     [type |-> "unknown", value |-> 10],
     [type |-> "fixed"],
     Fixed(-5),
     [type |-> "triangular", mode |-> 10, max |-> 12],
     [type |-> "triangular", min |-> 8, max |-> 12],
     [type |-> "triangular", min |-> 8, mode |-> 10],
     Triangular(-1, 2, 3),
     Triangular(-3, -2, -1),
     Triangular(10, 5, 15),
     Triangular(1, 5, 3),
     [type |-> "exponential"],
     Exponential(0),
     Exponential(-10)}

TimingWorkflows ==
    {[devices |-> <<Device(1, c)>>,
      operations |-> <<[operation_id |-> "op1", device_id |-> 1, timing |-> Fixed(5)],
                       [operation_id |-> "op2", device_id |-> 1, timing |-> t]>>,
      base_sequence |-> seq] :
        c \in 1..MaxCapacity,
        t \in WellFormedTimings \cup MalformedTimings,
        seq \in {<<Step("op1"), Step("op2")>>, <<Step("op2")>>, <<Step("op1")>>}}

TimingScenarios ==
    {Scenario("synchronized", n, sd, mt) :
        n \in 1..2, sd \in Seeds, mt \in Cutoffs}

TimingInit ==
    /\ workflow \in TimingWorkflows
    /\ scenario \in TimingScenarios
    /\ rng = 1
    /\ Fresh
    /\ run_no = 1
    /\ prev_events = <<>>
    /\ prev_summary = NoSummary

TimingSpec == TimingInit /\ [][Next]_vars

-----------------------------------------------------------------------------
(* The run_simulation route (api/routes.py): the workflow and the scenario *)
(* of a request are validated, and the engine is built and run only for a  *)
(* request that both validators accept.                                    *)

(* steps over the declared operations op1 and op2, the undeclared opX and  *)
(* the empty operation id, with at most one predecessor                    *)
ApiSteps ==
    {StepAfter(o, ps) : o \in {"op1", "op2", "opX", ""},
                        ps \in {<<>>, <<"op1">>, <<"op2">>, <<"opX">>}}

(* in the sequence of three steps the last step of op1 replaces the        *)
(* predecessors of the first                                               *)
ApiSequences ==
    UNION {[1..n -> ApiSteps] : n \in 1..2}
    \cup {<<StepAfter("op1", <<"op2">>), StepAfter("op2", <<"op1">>), Step("op1")>>}

ApiWorkflow(devs, device_id, t, seq) ==
    [devices |-> devs,
     operations |-> <<[operation_id |-> "op1", device_id |-> device_id, timing |-> Fixed(10)],
                      [operation_id |-> "op2", device_id |-> 1, timing |-> t]>>,
     base_sequence |-> seq]

(* op1 runs on the declared device 1, on the undeclared device 2 or has an *)
(* empty device id; three more workflows have a malformed timing model, a  *)
(* device without capacity and an empty base_sequence                      *)
ApiWorkflows ==
    {ApiWorkflow(<<Device(1, 1)>>, device_id, Fixed(5), seq) :
        device_id \in {NoDevice, 1, 2}, seq \in ApiSequences}
    \cup {ApiWorkflow(<<Device(1, 1)>>, 1, Fixed(-5), <<Step("op1"), Step("op2")>>),
          ApiWorkflow(<<Device(1, 0)>>, 1, Fixed(5), <<Step("op1"), Step("op2")>>),
          ApiWorkflow(<<Device(1, 1)>>, 1, Fixed(5), <<>>)}

ApiScenarios ==
    {Scenario("synchronized", 1, NoSeed, NoLimit),
     Scenario("synchronized", 2, 5, NoLimit),
     Scenario("synchronized", 2, NoSeed, 10),
     Scenario("single", 2, NoSeed, NoLimit)}

ApiInit ==
    /\ workflow \in ApiWorkflows
    /\ scenario \in ApiScenarios
    /\ rng = 1
    /\ now = 0
    /\ eid = 0
    /\ queue = {}
    /\ resources = EmptyMap
    /\ procs = EmptyMap
    /\ event_log = <<>>
    /\ sample_start_times = EmptyMap
    /\ sample_end_times = EmptyMap
    /\ summary = NoSummary
    /\ status = "received"
    /\ run_no = 1
    /\ prev_events = <<>>
    /\ prev_summary = NoSummary

(* both validators, then SimulationEngine(workflow, scenario) *)
Validate ==
    /\ status = "received"
    /\ status' = IF WorkflowErrors(workflow) # {} THEN "validation_error"
                 ELSE IF ScenarioErrors(scenario) # {} THEN "validation_error"
                 ELSE "constructed"
    /\ UNCHANGED <<workflow, scenario, now, eid, queue, resources, procs, event_log,
                   sample_start_times, sample_end_times, rng, summary,
                   run_no, prev_events, prev_summary>>

ApiNext ==
    \/ Validate
    \/ Next

ApiSpec == ApiInit /\ [][ApiNext]_vars

-----------------------------------------------------------------------------
(* A run stopped by max_simulation_time, then a second engine for the same *)
(* workflow and the same seeded cohort without the limit.                  *)

CutScenarios ==
    {Scenario("synchronized", n, 5, mt) : n \in 1..MaxSamples, mt \in Cutoffs \ {NoLimit}}

CutInit ==
    /\ workflow \in Workflows
    /\ scenario \in CutScenarios
    /\ rng = 1
    /\ Fresh
    /\ run_no = 1
    /\ prev_events = <<>>
    /\ prev_summary = NoSummary

(* the scenario is run again with max_simulation_time taken out of its     *)
(* simulation_config                                                        *)
RerunWithoutLimit ==
    /\ status = "done"
    /\ scenario.max_simulation_time # NoLimit
    /\ scenario.random_seed # NoSeed
    /\ run_no = 1
    /\ run_no' = 2
    /\ scenario' = [scenario EXCEPT !.max_simulation_time = NoLimit]
    /\ prev_events' = event_log
    /\ prev_summary' = summary
    /\ now' = 0
    /\ eid' = 0
    /\ queue' = {}
    /\ resources' = EmptyMap
    /\ procs' = EmptyMap
    /\ event_log' = <<>>
    /\ sample_start_times' = EmptyMap
    /\ sample_end_times' = EmptyMap
    /\ summary' = NoSummary
    /\ status' = "constructed"
    /\ UNCHANGED <<workflow, rng>>

CutNext ==
    \/ RerunWithoutLimit
    \/ Next

CutSpec == CutInit /\ [][CutNext]_vars

-----------------------------------------------------------------------------
(* Reading the event log *)

LogIdx == 1..Len(event_log)

EventsOf(s, type) ==
    {i \in LogIdx : event_log[i].sample_id = s /\ event_log[i].event_type = type}

(* samples that have logged START but not yet COMPLETE on device d *)
Executing(d) ==
    {s \in Samples :
        Cardinality({i \in EventsOf(s, "START") : event_log[i].device_id = d})
        > Cardinality({i \in EventsOf(s, "COMPLETE") : event_log[i].device_id = d})}

(* a sample runs its steps one after the other, so its n-th QUEUED and its *)
(* n-th START belong to the same request                                   *)
Rank(i) ==
    Cardinality({k \in EventsOf(event_log[i].sample_id, "QUEUED") : k <= i})

StartOf(i) ==
    LET starts == EventsOf(event_log[i].sample_id, "START")
    IN IF Cardinality(starts) < Rank(i) THEN 0
       ELSE CHOOSE k \in starts : Cardinality({m \in starts : m <= k}) = Rank(i)

StartWait(s) == event_log[CHOOSE i \in EventsOf(s, "START") : TRUE].wait_time

NoCutoff == scenario.max_simulation_time = NoLimit

AllDeclared == \A i \in 1..NumSteps : FindOp(workflow.base_sequence[i].operation_id) # 0

SeqOfTypes == <<"QUEUED", "START", "COMPLETE">>

EventsOfSample(s) == SelectSeq(event_log, LAMBDA x : x.sample_id = s)

TieOrder ==
    \A i, j \in LogIdx :
        (/\ i < j
         /\ event_log[i].event_type = event_log[j].event_type
         /\ event_log[i].timestamp = event_log[j].timestamp)
        => event_log[i].sample_id <= event_log[j].sample_id

-----------------------------------------------------------------------------
(* C1: at every point of every run, the number of samples that have        *)
(* emitted START but not yet COMPLETE on a device never exceeds the        *)
(* capacity of that device.                                                *)
C1_CapacityNeverExceeded ==
    status = "running" =>
        \A d \in Devices : Cardinality(Executing(d)) <= Capacity(d)

(* a device is full and another sample waits for it *)
C1_Witness ==
    /\ status = "running"
    /\ \E d \in Devices : /\ Capacity(d) = 2
                          /\ Cardinality(Executing(d)) = 2
                          /\ Len(resources[d].queue) > 0

(* C2: a device grants in arrival order: if the QUEUED of one request      *)
(* precedes the QUEUED of another request for the same device, and the     *)
(* later request has its START, then the earlier one has its START too,    *)
(* earlier in the log.                                                     *)
C2_FifoGrant ==
    \A i, j \in LogIdx :
        (/\ i < j
         /\ event_log[i].event_type = "QUEUED"
         /\ event_log[j].event_type = "QUEUED"
         /\ event_log[i].device_id = event_log[j].device_id
         /\ StartOf(j) # 0)
        => (StartOf(i) # 0 /\ StartOf(i) < StartOf(j))

(* a sample completed on a device, requested the same device again at once *)
(* while another sample was still waiting for it, and both have started    *)
C2_Witness ==
    \E i, j \in LogIdx :
        /\ i < j
        /\ j > 1
        /\ event_log[i].event_type = "QUEUED"
        /\ event_log[j].event_type = "QUEUED"
        /\ event_log[j - 1].event_type = "COMPLETE"
        /\ event_log[j - 1].sample_id = event_log[j].sample_id
        /\ event_log[j - 1].device_id = event_log[j].device_id
        /\ event_log[i].device_id = event_log[j].device_id
        /\ event_log[i].sample_id # event_log[j].sample_id
        /\ StartOf(i) > j
        /\ StartOf(j) # 0

(* C3: without max_simulation_time and with every step referencing a       *)
(* declared operation, the run never aborts, the event list never runs     *)
(* empty while a sample process is still suspended (no deadlock), and the  *)
(* run ends with every sample finished: N completed samples and 3 * N * S  *)
(* events.                                                                 *)
C3_AllSamplesFinish ==
    (NoCutoff /\ AllDeclared /\ Supported) =>
        /\ status # "error"
        /\ (status = "running" /\ queue = {}) => \A s \in Samples : procs[s].pc = "done"
        /\ status = "done" =>
              /\ summary.num_samples_completed = scenario.num_samples
              /\ Len(event_log) = 3 * scenario.num_samples * NumSteps
              /\ \A s \in Samples : procs[s].pc = "done"

(* a contended run over two steps has ended *)
C3_Witness ==
    /\ NoCutoff /\ AllDeclared /\ Supported
    /\ status = "done"
    /\ scenario.num_samples = 3
    /\ NumSteps = 2
    /\ \E i \in LogIdx : event_log[i].wait_time > 0

(* C4: the events of one sample come in the order QUEUED, START, COMPLETE  *)
(* step after step: no START without the QUEUED of that step before it,    *)
(* no COMPLETE without its START.                                          *)
C4_StepEventOrder ==
    \A s \in Samples :
        LET evs == EventsOfSample(s)
        IN \A k \in 1..Len(evs) :
              /\ evs[k].event_type = SeqOfTypes[((k - 1) % 3) + 1]
              /\ ((k - 1) \div 3) + 1 <= NumSteps
              /\ evs[k].operation_id
                    = workflow.base_sequence[((k - 1) \div 3) + 1].operation_id

(* a sample has gone through two steps while another sample logged events  *)
C4_Witness ==
    \E s \in Samples :
        /\ Len(EventsOfSample(s)) = 6
        /\ \E i \in LogIdx : i > 3 /\ i < Len(event_log)
                             /\ event_log[i].sample_id # s

(* C5: event timestamps never decrease along the log.                      *)
C5_TimestampsMonotonic ==
    \A i, j \in LogIdx : i < j => event_log[i].timestamp <= event_log[j].timestamp

(* the log spans three instants and two samples *)
C5_Witness ==
    /\ Cardinality({event_log[i].timestamp : i \in LogIdx}) >= 3
    /\ Cardinality({event_log[i].sample_id : i \in LogIdx}) >= 2

(* C6: a second run of the same workflow and scenario with the same        *)
(* random_seed ends with the event log and the summary of the first run.   *)
C6_SameSeedSameRun ==
    (run_no = 2 /\ status = "done" /\ scenario.random_seed # NoSeed) =>
        /\ event_log = prev_events
        /\ summary = prev_summary

(* the second seeded run has ended after drawing random durations *)
C6_Witness ==
    /\ run_no = 2
    /\ status = "done"
    /\ scenario.random_seed # NoSeed
    /\ rng # set_random_seed(scenario.random_seed)
    /\ Len(event_log) >= 6

SerialCase ==
    /\ Len(workflow.devices) = 1
    /\ Capacity(1) = 1
    /\ workflow.base_sequence = <<Step("op1")>>
    /\ workflow.operations[1].timing = Fixed(10)
    /\ scenario.pattern_type = "synchronized"
    /\ NoCutoff

C8_SerialBatch ==
    SerialCase =>
        /\ status # "error"
        /\ status = "done" =>
           /\ summary.total_simulation_time = 10 * scenario.num_samples
           /\ StartWait(0) = 0
           /\ \A k \in Samples : k > 0 => StartWait(k) > StartWait(k - 1)

C8_Witness ==
    /\ SerialCase
    /\ status = "done"
    /\ scenario.num_samples = 3

(* C9: one device of capacity c, one operation of fixed duration d, N <= c *)
(* synchronized samples: every sample starts with wait_time 0 and the run  *)
(* lasts d.                                                                *)
ParallelCase ==
    /\ Len(workflow.devices) = 1
    /\ NumSteps = 1
    /\ AllDeclared
    /\ workflow.operations[FindOp(workflow.base_sequence[1].operation_id)].timing.type
          = "fixed"
    /\ scenario.pattern_type = "synchronized"
    /\ scenario.num_samples <= workflow.devices[1].resource_capacity
    /\ NoCutoff

C9_ParallelBatch ==
    ParallelCase =>
        /\ status # "error"
        /\ status = "done" =>
           /\ \A s \in Samples : StartWait(s) = 0
           /\ summary.total_simulation_time
              = workflow.operations[FindOp(workflow.base_sequence[1].operation_id)].timing.value

C9_Witness ==
    /\ ParallelCase
    /\ status = "done"
    /\ workflow.devices[1].resource_capacity = 2
    /\ scenario.num_samples = 2
    /\ summary.total_simulation_time = 10

(* C10: one device of capacity 1, one fixed 10 s operation, the single     *)
(* pattern with one sample: exactly QUEUED at 0, START at 0 and COMPLETE   *)
(* at 10, one completed sample, total time 10 and throughput 1/10.         *)
SingleCase ==
    /\ Len(workflow.devices) = 1
    /\ Capacity(1) = 1
    /\ workflow.base_sequence = <<Step("op1")>>
    /\ workflow.operations[1].timing = Fixed(10)
    /\ scenario.pattern_type = "single"
    /\ scenario.num_samples = 1
    /\ NoCutoff

C10_SingleSampleExample ==
    SingleCase =>
        /\ status # "error"
        /\ status = "done" =>
           /\ Len(event_log) = 3
           /\ event_log[1].event_type = "QUEUED" /\ event_log[1].timestamp = 0
           /\ event_log[2].event_type = "START" /\ event_log[2].timestamp = 0
           /\ event_log[3].event_type = "COMPLETE" /\ event_log[3].timestamp = 10
           /\ summary.num_samples_completed = 1
           /\ summary.total_simulation_time = 10
           /\ summary.total_throughput = <<1, 10>>

C10_Witness ==
    /\ SingleCase
    /\ status = "done"
    /\ run_no = 1

(* the latest end timestamp of a sample *)
LastFinish ==
    CHOOSE t \in {sample_end_times[s] : s \in DOMAIN sample_end_times} :
        \A s \in DOMAIN sample_end_times : sample_end_times[s] <= t

AllFinished == DOMAIN sample_end_times = Samples

(* C11: when max_simulation_time is set but every sample finishes earlier  *)
(* (as in the fixture: one sample, one fixed 10 s operation, cutoff 1000), *)
(* total_simulation_time is the time of the last finish, not the cutoff,   *)
(* and the throughput is the number of completed samples over that time.   *)
C11_FinishBeforeCutoff ==
    (/\ status = "done"
     /\ ~NoCutoff
     /\ AllFinished
     /\ LastFinish > 0
     /\ LastFinish < scenario.max_simulation_time)
    => /\ summary.total_simulation_time = LastFinish
       /\ summary.total_throughput = Div(summary.num_samples_completed, LastFinish)

(* env.run(until=max_time) has returned while events of the cohort were   *)
(* still scheduled: the cohort needs max_simulation_time or longer         *)
CutShort ==
    /\ status = "done"
    /\ ~NoCutoff
    /\ queue # {}

(* C12: if max_simulation_time is shorter than the time the cohort needs   *)
(* to finish, run() returns (it does not abort) with                       *)
(* total_simulation_time <= max_simulation_time and with fewer completed   *)
(* samples than the cohort has.                                            *)
C12_CutoffLimitsRun ==
    /\ (~NoCutoff /\ AllDeclared /\ Supported) => status # "error"
    /\ CutShort =>
          /\ summary.total_simulation_time <= scenario.max_simulation_time
          /\ summary.num_samples_completed < scenario.num_samples

(* the cutoff fell after one sample had finished and before the last did *)
C12_Witness ==
    /\ CutShort
    /\ scenario.num_samples = 3
    /\ summary.num_samples_completed >= 1
    /\ \E s \in Samples : procs[s].pc = "timeout"

(* samples whose COMPLETE event of the last step is in the log *)
HasLastComplete ==
    {s \in Samples :
        \E i \in EventsOf(s, "COMPLETE") :
            Cardinality({k \in EventsOf(s, "COMPLETE") : k <= i}) = NumSteps}

Launched == status \in {"running", "done"}

CountsEndTimestamps ==
    status = "done" =>
        /\ summary.num_samples_completed = Cardinality(DOMAIN sample_end_times)
        /\ summary.num_samples_failed = 0
        /\ \A s \in Samples :
              procs[s].pc \in {"request", "timeout"} => s \notin DOMAIN sample_end_times

AtStatistics ==
    /\ status = "running"
    /\ queue = {} \/ PopMin(queue).kind = "until"

StatisticsInput == IF queue = {} THEN Engine ELSE Popped

(* C14: for every run that reaches the statistics stage, with or without   *)
(* cutoff and for any capacities and durations, the computed utilization   *)
(* of each device lies in [0, 1], so the summary is never rejected for its *)
(* utilization.                                                            *)
C14_UtilizationInRange ==
    AtStatistics =>
        \A d \in Devices :
            LET u == Utilization(StatisticsInput, d)
            IN u[1] >= 0 /\ u[1] <= u[2]

(* a sample has reached a step whose operation is not declared *)
ReachedUndeclared == \E s \in DOMAIN procs : procs[s].pc = "failed"

(* C15 as stated: if any step references an undeclared operation, run()    *)
(* aborts and returns no event log and no summary, for any number of       *)
(* samples, with or without max_simulation_time, wherever the step sits.   *)
C15_Original == ~AllDeclared => status # "done"

(* C15, amended: run() aborts as soon as a sample reaches a step whose     *)
(* operation is undeclared, and then returns no event log and no summary;  *)
(* without max_simulation_time this always happens.  When                  *)
(* max_simulation_time stops the run before any sample has reached such a  *)
(* step, run() returns a log and a summary.                                *)
C15_UnknownOperationAborts ==
    /\ ReachedUndeclared => (status \in {"running", "error"} /\ summary = NoSummary)
    /\ (~AllDeclared /\ NoCutoff) => status # "done"
    /\ (~AllDeclared /\ Supported /\ status = "running") => queue # {}
    /\ (~AllDeclared /\ status = "done") =>
          \A s \in Samples : /\ procs[s].pc \in {"request", "timeout"}
                              /\ FindOp(workflow.base_sequence[procs[s].step].operation_id) # 0

(* the run was aborted under a cutoff by the second step of a sample,      *)
(* after events had been logged                                            *)
C15_Witness ==
    /\ status = "error"
    /\ ReachedUndeclared
    /\ ~NoCutoff
    /\ scenario.num_samples >= 2
    /\ \E i \in LogIdx : event_log[i].event_type = "COMPLETE"

OtherPattern == scenario.pattern_type \notin {"synchronized", "single"}

(* C16: with a pattern_type that is neither synchronized nor single, run() *)
(* fails before any sample process starts: the event log is empty, no      *)
(* sample start timestamp is recorded and the clock is still at 0.         *)
C16_UnsupportedPatternFailsEarly ==
    OtherPattern =>
        /\ status \in {"constructed", "error"}
        /\ event_log = <<>>
        /\ sample_start_times = EmptyMap
        /\ procs = EmptyMap
        /\ queue = {}
        /\ now = 0
        /\ summary = NoSummary

(* run() has failed on the pattern type after building the resources *)
C16_Witness ==
    /\ OtherPattern
    /\ status = "error"
    /\ DOMAIN resources = Devices
    /\ Len(workflow.devices) = 2

(* the sample processes that run() has created *)
LaunchedSamples == DOMAIN procs

(* C17: for the single pattern the engine launches exactly one sample      *)
(* process, SAMPLE_000 with entry time 0, whatever num_samples says; for   *)
(* synchronized it launches SAMPLE_000 .. SAMPLE_(N-1) in index order, all *)
(* with entry time 0.                                                      *)
C17_EntryPattern ==
    Launched =>
        /\ scenario.pattern_type = "single" => LaunchedSamples = {0}
        /\ scenario.pattern_type = "synchronized"
              => LaunchedSamples = 0..(scenario.num_samples - 1)
        /\ \A s \in DOMAIN sample_start_times : sample_start_times[s] = 0
        /\ \A a, b \in queue :
              (a.kind = "initialize" /\ b.kind = "initialize" /\ a.sample < b.sample)
              => Before(a, b)

(* C18: every event in the log has timestamp, duration, wait_time and     *)
(* device_queue_length >= 0 and a type among QUEUED, START and COMPLETE;   *)
(* RELEASED is never emitted; and no sample process ever fails on the      *)
(* construction of an event (a process fails only on an undeclared         *)
(* operation).                                                             *)
C18_EventsValid ==
    /\ \A i \in LogIdx :
          /\ event_log[i].timestamp >= 0
          /\ event_log[i].duration >= 0
          /\ event_log[i].wait_time >= 0
          /\ event_log[i].device_queue_length >= 0
          /\ event_log[i].event_type \in {"QUEUED", "START", "COMPLETE"}
    /\ \A s \in DOMAIN procs :
          procs[s].pc = "failed"
          => FindOp(workflow.base_sequence[procs[s].step].operation_id) = 0

(* a finished run whose log has positive waits, durations and queue lengths *)
C18_Witness ==
    /\ status = "done"
    /\ \E i \in LogIdx : event_log[i].event_type = "START" /\ event_log[i].wait_time > 0
    /\ \E i \in LogIdx : event_log[i].device_queue_length > 0
    /\ \E i \in LogIdx : event_log[i].duration > 0

(* the position in the log of the START, or COMPLETE, of step k of sample s; *)
(* 0 when it is not in the log                                             *)
StepEvent(s, type, k) ==
    LET evs == EventsOf(s, type)
    IN IF Cardinality(evs) < k THEN 0
       ELSE CHOOSE i \in evs : Cardinality({m \in evs : m <= i}) = k

(* C19: every sample executes the steps of base_sequence strictly in list  *)
(* order and one at a time: its k-th QUEUED, START and COMPLETE are those  *)
(* of the k-th step of the list, the START of step k + 1 never precedes    *)
(* the COMPLETE of step k, and this is so whatever the predecessors of the *)
(* steps say.                                                              *)
C19_ListOrder ==
    \A s \in LaunchedSamples :
        /\ \A i \in LogIdx :
              event_log[i].sample_id = s =>
                 \E k \in 1..NumSteps :
                    /\ Cardinality({m \in EventsOf(s, event_log[i].event_type) : m <= i}) = k
                    /\ event_log[i].operation_id = workflow.base_sequence[k].operation_id
        /\ \A k \in 1..NumSteps :
              StepEvent(s, "START", k + 1) # 0 =>
                 /\ StepEvent(s, "COMPLETE", k) # 0
                 /\ StepEvent(s, "COMPLETE", k) < StepEvent(s, "START", k + 1)
        /\ Cardinality(EventsOf(s, "START")) - Cardinality(EventsOf(s, "COMPLETE"))
              \in {0, 1}

(* the first step names the second as its predecessor, and a sample has    *)
(* gone through both in list order                                         *)
C19_Witness ==
    /\ NumSteps = 2
    /\ workflow.base_sequence[1].predecessors
          = <<workflow.base_sequence[2].operation_id>>
    /\ workflow.base_sequence[1].operation_id # workflow.base_sequence[2].operation_id
    /\ \E s \in LaunchedSamples : StepEvent(s, "COMPLETE", 2) # 0

(* the QUEUED event of sample s for the first step *)
FirstQueued(s) == event_log[StepEvent(s, "QUEUED", 1)]

Entered == {s \in LaunchedSamples : StepEvent(s, "QUEUED", 1) # 0}

-----------------------------------------------------------------------------
(* Requests and the holders of a device *)

(* the START event that answers the QUEUED event at position i; 0 if none *)
StartOfRequest(i) == StartOf(i)

(* samples other than the requester of the QUEUED event at position i that *)
(* hold its device at the instant of the request: START at or before that  *)
(* instant and no COMPLETE up to it                                        *)
HoldersAt(i) ==
    LET d == event_log[i].device_id
        t == event_log[i].timestamp
        others == {j \in LogIdx : /\ event_log[j].sample_id # event_log[i].sample_id
                                  /\ event_log[j].device_id = d
                                  /\ event_log[j].timestamp <= t}
    IN Cardinality({j \in others : event_log[j].event_type = "START"})
       - Cardinality({j \in others : event_log[j].event_type = "COMPLETE"})

(* every event of the instant of the QUEUED event at position i is logged *)
InstantOver(i) == now > event_log[i].timestamp \/ status = "done"

(* C21: a sample that requests a device at an instant when fewer than      *)
(* capacity samples hold it acquires it immediately: its START has the     *)
(* timestamp of its QUEUED and wait_time 0.  A request waits (START later  *)
(* than QUEUED, wait_time > 0) only when capacity samples hold the device. *)
C21_ImmediateAcquire ==
    \A i \in LogIdx :
        event_log[i].event_type = "QUEUED" =>
            /\ (InstantOver(i) /\ HoldersAt(i) < Capacity(event_log[i].device_id))
                  => /\ StartOfRequest(i) # 0
                     /\ event_log[StartOfRequest(i)].timestamp = event_log[i].timestamp
                     /\ event_log[StartOfRequest(i)].wait_time = 0
            /\ (StartOfRequest(i) # 0 /\ event_log[StartOfRequest(i)].wait_time > 0)
                  => /\ HoldersAt(i) = Capacity(event_log[i].device_id)
                     /\ event_log[StartOfRequest(i)].timestamp > event_log[i].timestamp

(* a sample found one of two slots free after time 0 and has started with  *)
(* wait_time 0 at the timestamp of its QUEUED                              *)
C21_Witness ==
    \E i \in LogIdx :
        /\ i > 1
        /\ event_log[i].event_type = "START"
        /\ event_log[i].wait_time = 0
        /\ event_log[i].timestamp > 0
        /\ Capacity(event_log[i].device_id) = 2
        /\ Cardinality(Executing(event_log[i].device_id)) = 2
        /\ event_log[i - 1].event_type = "QUEUED"
        /\ event_log[i - 1].sample_id = event_log[i].sample_id
        /\ event_log[i - 1].timestamp = event_log[i].timestamp

(* the requests for the device of the COMPLETE event at position j that   *)
(* are not yet started at that point of the log                            *)
WaitingAt(j) ==
    {i \in 1..(j - 1) :
        /\ event_log[i].event_type = "QUEUED"
        /\ event_log[i].device_id = event_log[j].device_id
        /\ (StartOf(i) = 0 \/ StartOf(i) > j)}

HeadWaiter(j) == CHOOSE i \in WaitingAt(j) : \A k \in WaitingAt(j) : i <= k

(* C22: when the operation of a holder completes at time t while samples   *)
(* wait for its device, the head of the wait queue starts at time t, and   *)
(* its START follows the COMPLETE of the releaser in the log.              *)
C22_ZeroTimeHandover ==
    \A j \in LogIdx :
        (/\ event_log[j].event_type = "COMPLETE"
         /\ WaitingAt(j) # {}
         /\ now > event_log[j].timestamp \/ status = "done")
        => /\ StartOf(HeadWaiter(j)) > j
           /\ event_log[StartOf(HeadWaiter(j))].timestamp = event_log[j].timestamp

(* a device was handed at a time after 0 to the first of two waiters, who  *)
(* had waited                                                              *)
C22_Witness ==
    \E j \in LogIdx :
        /\ event_log[j].event_type = "COMPLETE"
        /\ event_log[j].timestamp > 0
        /\ Cardinality(WaitingAt(j)) = 2
        /\ StartOf(HeadWaiter(j)) > j
        /\ event_log[StartOf(HeadWaiter(j))].wait_time = event_log[j].timestamp
        /\ event_log[StartOf(HeadWaiter(j))].sample_id # event_log[j].sample_id

-----------------------------------------------------------------------------
(* Malformed timing models *)

Has(t, key) == key \in DOMAIN t

MalformedTiming(t) ==
    \/ ~Has(t, "type")
    \/ /\ Has(t, "type")
       /\ \/ t.type \notin {"fixed", "triangular", "exponential"}
          \/ t.type = "fixed" /\ (~Has(t, "value") \/ (Has(t, "value") /\ t.value < 0))
          \/ /\ t.type = "triangular"
             /\ \/ ~Has(t, "min") \/ ~Has(t, "mode") \/ ~Has(t, "max")
                \/ /\ Has(t, "min") /\ Has(t, "mode") /\ Has(t, "max")
                   /\ \/ t.min < 0 \/ t.mode < 0 \/ t.max < 0
                      \/ t.min > t.mode
                      \/ t.mode > t.max
          \/ t.type = "exponential" /\ (~Has(t, "mean") \/ (Has(t, "mean") /\ t.mean <= 0))

TimingOf(i) == workflow.operations[FindOp(event_log[i].operation_id)].timing

MalformedStarts ==
    {i \in LogIdx : event_log[i].event_type = "START" /\ MalformedTiming(TimingOf(i))}

FailurePending(s) ==
    \E a \in queue : a.kind = "process" /\ a.sample = s /\ ~a.ok /\ a.time = now

(* C23: sampling a timing model without a type, of an unknown type, or     *)
(* with a missing or out-of-range parameter raises and yields no duration, *)
(* whatever the state of the generator; a sample that starts an operation  *)
(* with such a model fails at its START, no COMPLETE follows, and the run  *)
(* ends with the error and without a summary.                              *)
C23_MalformedTimingRaises ==
    /\ \A k \in 1..Len(workflow.operations) : \A r \in 0..(RngMod - 1) :
           MalformedTiming(workflow.operations[k].timing)
              => sample_timing(workflow.operations[k].timing, r) = Raise
    /\ \A i \in MalformedStarts :
           /\ procs[event_log[i].sample_id].pc = "failed"
           /\ \A j \in LogIdx :
                  (event_log[j].sample_id = event_log[i].sample_id /\ j > i)
                     => event_log[j].event_type # "COMPLETE"
           /\ status \in {"running", "error"}
           /\ status = "running" => FailurePending(event_log[i].sample_id)
           /\ summary = NoSummary

(* a run of two samples was aborted by the second operation of the first   *)
(* sample, whose exponential timing model has mean 0                       *)
C23_Witness ==
    /\ status = "error"
    /\ scenario.num_samples = 2
    /\ \E i \in MalformedStarts :
           /\ TimingOf(i) = Exponential(0)
           /\ event_log[i].timestamp > 0
           /\ event_log[i].operation_id = "op2"

-----------------------------------------------------------------------------
(* Timing fields of the events of one step *)

StepsLogged(s, type) == 1..Cardinality(EventsOf(s, type))

(* C24: for every executed step the wait_time of the START event is the    *)
(* START timestamp minus the QUEUED timestamp of the same sample and step, *)
(* the COMPLETE event carries the wait_time of that START, and the         *)
(* COMPLETE timestamp is the START timestamp plus the COMPLETE duration    *)
(* (differences and sums as floating point computes them).                 *)
C24_StepTiming ==
    \A s \in DOMAIN procs :
        /\ \A k \in StepsLogged(s, "START") :
               /\ StepEvent(s, "QUEUED", k) # 0
               /\ event_log[StepEvent(s, "START", k)].wait_time
                     = Fl(event_log[StepEvent(s, "START", k)].timestamp
                          - event_log[StepEvent(s, "QUEUED", k)].timestamp)
        /\ \A k \in StepsLogged(s, "COMPLETE") :
               /\ StepEvent(s, "START", k) # 0
               /\ event_log[StepEvent(s, "COMPLETE", k)].wait_time
                     = event_log[StepEvent(s, "START", k)].wait_time
               /\ event_log[StepEvent(s, "COMPLETE", k)].timestamp
                     = Fl(event_log[StepEvent(s, "START", k)].timestamp
                          + event_log[StepEvent(s, "COMPLETE", k)].duration)

(* a second step was requested after time 0, waited for its device and     *)
(* completed after a positive duration                                     *)
C24_Witness ==
    \E s \in DOMAIN procs :
        /\ 2 \in StepsLogged(s, "COMPLETE")
        /\ event_log[StepEvent(s, "QUEUED", 2)].timestamp > 0
        /\ event_log[StepEvent(s, "START", 2)].wait_time > 0
        /\ event_log[StepEvent(s, "COMPLETE", 2)].duration > 0

-----------------------------------------------------------------------------
(* The queue length stamped on an event *)

InSeq(x, seq) == \E k \in 1..Len(seq) : seq[k] = x

(* the device a sample that is at device_resource.request() asks for *)
DeviceAsked(s) ==
    workflow.operations[FindOp(workflow.base_sequence[procs[s].step].operation_id)].device_id

(* the samples that have requested device d and have not been granted it *)
Ungranted(d) ==
    {s \in DOMAIN procs :
        /\ procs[s].pc = "request"
        /\ DeviceAsked(s) = d
        /\ ~InSeq(s, resources[d].users)}

Logs(type) ==
    /\ Len(event_log') = Len(event_log) + 1
    /\ event_log'[Len(event_log')].event_type = type

(* C25: the device_queue_length of a QUEUED event is the number of samples *)
(* other than the requester that, at the instant of the request, have      *)
(* requested the device and have not been granted it; START and COMPLETE   *)
(* events carry device_queue_length 0.                                     *)
C25_QueueLengthStamp ==
    /\ [](\A i \in LogIdx :
             event_log[i].event_type \in {"START", "COMPLETE"}
                => event_log[i].device_queue_length = 0)
    /\ [][Logs("QUEUED") =>
             event_log'[Len(event_log')].device_queue_length
               = Cardinality(Ungranted(event_log'[Len(event_log')].device_id)
                             \ {event_log'[Len(event_log')].sample_id})]_vars

(* a sample that left a device of capacity 1 asked for it again behind two *)
(* waiting samples, and has started its second step in the end             *)
C25_Witness ==
    \E i \in LogIdx :
        /\ event_log[i].event_type = "QUEUED"
        /\ event_log[i].timestamp > 0
        /\ event_log[i].device_queue_length = 2
        /\ Capacity(event_log[i].device_id) = 1
        /\ StartOf(i) # 0

-----------------------------------------------------------------------------
(* The devices a sample holds *)

Holding(s, d) == InSeq(s, resources[d].users)

HeldBy(s) == {d \in DOMAIN resources : Holding(s, d)}

(* the request of s was granted at this instant and its START is next *)
GrantPending(s) ==
    \E a \in queue : a.kind = "request" /\ a.sample = s /\ a.time = now

(* s has logged the START of its current step and not its COMPLETE *)
InOperation(s, d) ==
    /\ s \in Executing(d)
    /\ procs[s].pc # "failed"

(* C26: a sample holds a device exactly from the START to the COMPLETE of  *)
(* a step (it is granted the device at the instant of its START): it       *)
(* holds at most one device, holds none while it waits in the queue of its *)
(* next step, and holds none after it has terminated.                      *)
C26_HoldsFromStartToComplete ==
    \A s \in DOMAIN procs :
        /\ Cardinality(HeldBy(s)) <= 1
        /\ \A d \in DOMAIN resources :
               /\ Cardinality({k \in 1..Len(resources[d].users) :
                                  resources[d].users[k] = s}) <= 1
               /\ Holding(s, d) <=>
                     \/ InOperation(s, d)
                     \/ procs[s].pc = "request" /\ DeviceAsked(s) = d /\ GrantPending(s)
        /\ (procs[s].pc = "request" /\ ~GrantPending(s)) => HeldBy(s) = {}
        /\ procs[s].pc \in {"done", "failed"} => HeldBy(s) = {}

(* one sample has terminated, one waits for its second step and holds      *)
(* nothing, a third is in its operation and holds the device               *)
C26_Witness ==
    \E s, t, u \in DOMAIN procs : \E d \in DOMAIN resources :
        /\ procs[s].pc = "done"
        /\ HeldBy(s) = {}
        /\ procs[t].pc = "request"
        /\ procs[t].step = 2
        /\ ~GrantPending(t)
        /\ HeldBy(t) = {}
        /\ InOperation(u, d)
        /\ HeldBy(u) = {d}

-----------------------------------------------------------------------------
(* Throughput *)

(* the fraction q is the quotient n / d *)
IsQuotient(q, n, d) == q[1] * d = n * q[2]

(* C27: total_throughput is num_samples_completed divided by the final     *)
(* simulation clock when the clock is greater than 0, and 0 when the clock *)
(* is 0, even if samples completed.                                        *)
C27_Throughput ==
    status = "done" =>
        /\ summary.total_simulation_time = now
        /\ now > 0 => IsQuotient(summary.total_throughput,
                                 summary.num_samples_completed, now)
        /\ now = 0 => summary.total_throughput = Zero

(* two samples completed an operation of duration 0 and the clock is at 0 *)
C27_Witness ==
    /\ status = "done"
    /\ now = 0
    /\ summary.num_samples_completed = 2
    /\ summary.total_throughput = Zero
    /\ \E i \in LogIdx : event_log[i].event_type = "COMPLETE"

-----------------------------------------------------------------------------
(* Busy time of a device *)

(* the position of the COMPLETE event of the START event at position i; 0  *)
(* when the operation is still in progress                                 *)
CompleteOf(i) ==
    StepEvent(event_log[i].sample_id, "COMPLETE",
              Cardinality({k \in EventsOf(event_log[i].sample_id, "START") : k <= i}))

(* the time a slot was held for the operation started at position i, up   *)
(* to the final clock                                                      *)
HeldFor(i) ==
    (IF CompleteOf(i) # 0 THEN event_log[CompleteOf(i)].timestamp ELSE now)
    - event_log[i].timestamp

RECURSIVE HeldTime(_)
HeldTime(starts) ==
    IF starts = {} THEN 0
    ELSE LET i == CHOOSE x \in starts : TRUE
         IN HeldFor(i) + HeldTime(starts \ {i})

StartsOn(d) ==
    {i \in LogIdx : event_log[i].event_type = "START" /\ event_log[i].device_id = d}

(* C28: in every run that returns a summary with the clock above 0, runs   *)
(* stopped by max_simulation_time included, the utilization of a device is *)
(* the total time its slots were held by samples during                    *)
(* [0, total_simulation_time] divided by capacity * total_simulation_time. *)
C28_BusyFraction ==
    (status = "done" /\ now > 0) =>
        \A d \in Devices :
            IsQuotient(summary.device_utilization[d],
                       HeldTime(StartsOn(d)), Capacity(d) * now)

-----------------------------------------------------------------------------
(* Queue statistics of a device *)

(* the START events on device d that had to wait *)
WaitedOn(d) == {i \in StartsOn(d) : event_log[i].wait_time > 0}

QueuedOn(d) ==
    {i \in LogIdx : event_log[i].event_type = "QUEUED" /\ event_log[i].device_id = d}

(* the wait times of a set of START events, added up in log order as      *)
(* floating point adds them                                                *)
RECURSIVE TotalWait(_)
TotalWait(starts) ==
    IF starts = {} THEN 0
    ELSE LET i == CHOOSE x \in starts : \A y \in starts : y <= x
         IN Fl(TotalWait(starts \ {i}) + event_log[i].wait_time)

(* C29: per device, queue_events is the number of START events on the     *)
(* device with wait_time > 0, total_queue_time the sum of those wait times *)
(* and avg_queue_time their mean (0 when there are none: starts that did   *)
(* not wait are not averaged in); max_queue_length is the largest          *)
(* device_queue_length of the QUEUED events of the device (0 when there    *)
(* are none).                                                              *)
C29_QueueStats ==
    status = "done" =>
        \A d \in Devices :
            LET st == summary.device_queue_stats[d] IN
            /\ st.queue_events = Cardinality(WaitedOn(d))
            /\ st.total_queue_time = TotalWait(WaitedOn(d))
            /\ IF WaitedOn(d) = {} THEN st.avg_queue_time = Zero
               ELSE IsQuotient(st.avg_queue_time, TotalWait(WaitedOn(d)),
                               Cardinality(WaitedOn(d)))
            /\ IF QueuedOn(d) = {} THEN st.max_queue_length = 0
               ELSE /\ \E i \in QueuedOn(d) :
                          event_log[i].device_queue_length = st.max_queue_length
                    /\ \A i \in QueuedOn(d) :
                          event_log[i].device_queue_length <= st.max_queue_length

(* on one device two starts waited, for different times, and another did   *)
(* not; a second device was never asked for                                *)
C29_Witness ==
    /\ status = "done"
    /\ \E d \in Devices :
           /\ summary.device_queue_stats[d].queue_events = 2
           /\ StartsOn(d) \ WaitedOn(d) # {}
           /\ \E i, j \in WaitedOn(d) : event_log[i].wait_time # event_log[j].wait_time
           /\ summary.device_queue_stats[d].max_queue_length >= 1
    /\ \E d \in Devices : QueuedOn(d) = {}

-----------------------------------------------------------------------------
(* Bottleneck *)

(* C30: bottleneck_device is the device of highest utilization, the first  *)
(* such device of the device list when several tie; bottleneck_utilization *)
(* is its utilization and bottleneck_queue_delay its avg_queue_time; with  *)
(* no devices the three fields are "", 0 and 0.                            *)
C30_Bottleneck ==
    status = "done" =>
        IF Devices = {}
        THEN /\ summary.bottleneck_device = NoDevice
             /\ summary.bottleneck_utilization = Zero
             /\ summary.bottleneck_queue_delay = Zero
        ELSE /\ summary.bottleneck_device \in Devices
             /\ \A o \in Devices :
                   /\ ~Greater(summary.device_utilization[o],
                               summary.device_utilization[summary.bottleneck_device])
                   /\ o < summary.bottleneck_device
                         => Greater(summary.device_utilization[summary.bottleneck_device],
                                    summary.device_utilization[o])
             /\ summary.bottleneck_utilization
                   = summary.device_utilization[summary.bottleneck_device]
             /\ summary.bottleneck_queue_delay
                   = summary.device_queue_stats[summary.bottleneck_device].avg_queue_time

(* two devices were equally busy, for a positive share of the time, and    *)
(* the first of the list is reported                                       *)
C30_Witness ==
    /\ status = "done"
    /\ Devices = {1, 2}
    /\ summary.device_utilization[1] = summary.device_utilization[2]
    /\ summary.device_utilization[1] # Zero
    /\ summary.bottleneck_device = 1

(* a run without devices has returned its summary *)
C30_NoDevices ==
    /\ status = "done"
    /\ Devices = {}
    /\ summary.num_samples_completed = 2

-----------------------------------------------------------------------------
(* Consumption of the random generator *)

(* a timing model whose sampling draws from the generator *)
Stochastic(t) ==
    /\ ~MalformedTiming(t)
    /\ \/ t.type = "exponential"
       \/ t.type = "triangular" /\ t.min # t.max

NewEvent == event_log'[Len(event_log')]

NewTiming == workflow.operations[FindOp(NewEvent.operation_id)].timing

(* C31: the generator is consumed in the log order of the START events:   *)
(* the handler that logs the START of a stochastic operation advances the  *)
(* generator by one draw, no other step of a run touches it, and a fixed   *)
(* or degenerate triangular (min = max) timing gives its duration without  *)
(* a draw.                                                                 *)
C31_DrawsFollowStarts ==
    [][status = "running" =>
          IF Logs("START") /\ Stochastic(NewTiming)
          THEN rng' = RngNext(rng)
          ELSE /\ rng' = rng
               /\ (Logs("START") /\ ~MalformedTiming(NewTiming)) =>
                      procs'[NewEvent.sample_id].duration
                        = IF NewTiming.type = "fixed" THEN NewTiming.value
                          ELSE NewTiming.min]_vars

(* both samples of a run have started a stochastic operation after an      *)
(* operation of fixed duration each                                        *)
C31_Witness ==
    /\ scenario.num_samples = 2
    /\ \E i, j \in LogIdx :
           /\ i < j
           /\ event_log[i].event_type = "START"
           /\ event_log[j].event_type = "START"
           /\ event_log[i].sample_id # event_log[j].sample_id
           /\ Stochastic(TimingOf(i))
           /\ Stochastic(TimingOf(j))
           /\ event_log[i].timestamp > 0
    /\ rng = RngNext(RngNext(IF scenario.random_seed # NoSeed
                              THEN scenario.random_seed % RngMod ELSE 1))

-----------------------------------------------------------------------------
(* Circular dependencies *)

(* the predecessor relation a base_sequence declares: an edge from the     *)
(* operation of each step to each of its predecessors                      *)
DeclaredEdges(seq) ==
    UNION {{<<seq[i].operation_id, seq[i].predecessors[k]>> :
               k \in 1..Len(seq[i].predecessors)} : i \in 1..Len(seq)}

(* the nodes reached from the set of nodes from in at most k more steps *)
RECURSIVE ReachedIn(_, _, _)
ReachedIn(edges, from, k) ==
    IF k = 0 THEN from
    ELSE ReachedIn(edges, from \cup {e[2] : e \in {x \in edges : x[1] \in from}}, k - 1)

Successors(edges, n) == {e[2] : e \in {x \in edges : x[1] = n}}

(* some operation is its own predecessor, directly or through others *)
Cyclic(seq) ==
    \E e \in DeclaredEdges(seq) :
        e[1] \in ReachedIn(DeclaredEdges(seq), Successors(DeclaredEdges(seq), e[1]),
                           Cardinality(DeclaredEdges(seq)))

Validated == status # "received"

PassesSchemaAndReferences ==
    /\ WorkflowSchemaErrors(workflow) = {}
    /\ DeviceReferenceErrors(workflow) = {}
    /\ OperationReferenceErrors(workflow) = {}

(* C32: for every workflow that passes the schema and reference checks,    *)
(* validate reports a circular dependency if and only if the predecessor   *)
(* relation declared by base_sequence has a cycle, self-reference          *)
(* included.                                                               *)
C32_CycleReportedIffDeclared ==
    (Validated /\ PassesSchemaAndReferences) =>
        ("circular dependency" \in WorkflowErrors(workflow)
            <=> Cyclic(workflow.base_sequence))

-----------------------------------------------------------------------------
(* Reference integrity of accepted workflows *)

Accepted == Validated /\ WorkflowErrors(workflow) = {}

DeclaredDevices == {workflow.devices[k].device_id : k \in 1..Len(workflow.devices)}

ReferenceIntegrity ==
    /\ \A k \in 1..Len(workflow.operations) :
           workflow.operations[k].device_id \in DeclaredDevices
    /\ \A i \in 1..Len(workflow.base_sequence) :
           /\ workflow.base_sequence[i].operation_id \in OperationIds
           /\ \A k \in 1..Len(workflow.base_sequence[i].predecessors) :
                  workflow.base_sequence[i].predecessors[k] \in OperationIds

(* a sample process has raised on an operation or a device it did not find *)
FailedOnReference == \E s \in DOMAIN procs : procs[s].pc = "failed"

(* C33: every workflow accepted by validate has reference integrity (the   *)
(* device_id of each operation names a declared device, the operation_id   *)
(* and the predecessors of each step name declared operations), and no     *)
(* sample of a run of an accepted workflow fails on an unknown operation   *)
(* or an unknown device.                                                   *)
C33_AcceptedHasIntegrity ==
    Accepted => (ReferenceIntegrity /\ ~FailedOnReference)

-----------------------------------------------------------------------------
(* Cycle time of a sample *)

RECURSIVE WaitPlusDuration(_)
WaitPlusDuration(completes) ==
    IF completes = {} THEN 0
    ELSE LET i == CHOOSE x \in completes : TRUE
         IN event_log[i].wait_time + event_log[i].duration
            + WaitPlusDuration(completes \ {i})

LastComplete(s) ==
    CHOOSE i \in EventsOf(s, "COMPLETE") : \A j \in EventsOf(s, "COMPLETE") : j <= i

CycleTimeIsWaitPlusDuration(s) ==
    /\ sample_start_times[s] = 0
    /\ sample_end_times[s] - sample_start_times[s]
          = WaitPlusDuration(EventsOf(s, "COMPLETE"))

EndsAtLastComplete(s) ==
    /\ EventsOf(s, "COMPLETE") # {}
    /\ sample_end_times[s] = event_log[LastComplete(s)].timestamp

(* C34 as stated: for every completed sample the cycle time (end minus     *)
(* start, the start being 0) is the sum over its steps of wait_time +      *)
(* duration of the COMPLETE event, and the end timestamp is the timestamp  *)
(* of its last COMPLETE event.                                             *)
C34_Original ==
    \A s \in DOMAIN sample_end_times :
        CycleTimeIsWaitPlusDuration(s) /\ EndsAtLastComplete(s)

(* no timestamp of the log was rounded: all are in the range where the    *)
(* floating-point sums are exact                                           *)
NothingRounded == \A i \in LogIdx : event_log[i].timestamp < 2^Mantissa

(* C34, amended: for every completed sample of a run whose timestamps are  *)
(* exact floating-point sums, the cycle time is the sum over its steps of  *)
(* wait_time + duration of the COMPLETE event; the end timestamp is the    *)
(* timestamp of its last COMPLETE event when base_sequence has at least    *)
(* one step (with no step a completed sample has no COMPLETE event and     *)
(* ends at its entry).                                                     *)
C34_CycleTime ==
    \A s \in DOMAIN sample_end_times :
        /\ NothingRounded => CycleTimeIsWaitPlusDuration(s)
        /\ NumSteps >= 1 => EndsAtLastComplete(s)
        /\ NumSteps = 0 => sample_end_times[s] = sample_start_times[s]

(* a sample has completed two steps and waited before each of them *)
C34_Witness ==
    \E s \in DOMAIN sample_end_times :
        /\ Cardinality(EventsOf(s, "COMPLETE")) = 2
        /\ \A i \in EventsOf(s, "COMPLETE") :
               event_log[i].wait_time > 0 /\ event_log[i].duration > 0
        /\ sample_end_times[s] > 0
        /\ NothingRounded

-----------------------------------------------------------------------------
(* The log of a stopped run and the log of the full run *)

(* the full run of a scenario whose stopped run is in prev_events *)
FullRunOver ==
    /\ run_no = 2
    /\ scenario.max_simulation_time = NoLimit
    /\ status \in {"done", "error"}

StoppedAt == prev_summary.total_simulation_time

EarlierThan(t) == SelectSeq(event_log, LAMBDA x : x.timestamp < t)

(* C35: for the same workflow, cohort and sampled durations, the log of    *)
(* the run stopped by max_simulation_time = T is the prefix of the log of  *)
(* the run without limit that holds its events of timestamp < T.           *)
C35_StoppedLogIsPrefix ==
    FullRunOver =>
        /\ prev_events = EarlierThan(StoppedAt)
        /\ Len(prev_events) <= Len(event_log)
        /\ prev_events = SubSeq(event_log, 1, Len(prev_events))

(* the limit stopped three samples, with stochastic durations, in the      *)
(* middle of their steps; the full run logged more                         *)
C35_Witness ==
    /\ FullRunOver
    /\ status = "done"
    /\ scenario.num_samples = 3
    /\ Len(prev_events) > 3
    /\ Len(event_log) > Len(prev_events)
    /\ \E i \in LogIdx : event_log[i].timestamp = StoppedAt
    /\ \E k \in 1..Len(workflow.operations) : Stochastic(workflow.operations[k].timing)

-----------------------------------------------------------------------------
(* The instant of the limit *)

Stopped ==
    /\ status = "done"
    /\ ~NoCutoff

(* samples whose running operation completes at the instant t: their       *)
(* timeout is still on the event list                                      *)
CompletingAt(t) ==
    {s \in Samples : \E e \in queue : e.kind = "timeout" /\ e.sample = s /\ e.time = t}

(* C36: with max_simulation_time = T every event of the returned log has a *)
(* timestamp strictly less than T; an operation whose completion instant   *)
(* is T gets no COMPLETE event and its sample gets no end timestamp.       *)
C36_LogEndsBeforeLimit ==
    Stopped =>
        /\ \A i \in LogIdx : event_log[i].timestamp < scenario.max_simulation_time
        /\ \A s \in CompletingAt(scenario.max_simulation_time) :
               /\ Cardinality(EventsOf(s, "COMPLETE")) < Cardinality(EventsOf(s, "START"))
               /\ s \notin DOMAIN sample_end_times

(* the only step of two samples would complete at the instant of the limit *)
C36_Witness ==
    /\ Stopped
    /\ NumSteps = 1
    /\ Cardinality(CompletingAt(scenario.max_simulation_time)) = 2
    /\ \A s \in CompletingAt(scenario.max_simulation_time) :
           /\ EventsOf(s, "START") # {}
           /\ EventsOf(s, "COMPLETE") = {}

-----------------------------------------------------------------------------
(* Work conservation *)

(* a device with a waiting request and a free slot *)
IdleWithWaiter(d) ==
    /\ Len(resources[d].queue) > 0
    /\ Len(resources[d].users) < Capacity(d)

(* samples that hold device d when the instant t is over: START on d at or *)
(* before t, and no COMPLETE of that step up to t                          *)
HoldersAfter(d, t) ==
    {s \in Samples :
        \E i \in EventsOf(s, "START") :
            /\ event_log[i].device_id = d
            /\ event_log[i].timestamp <= t
            /\ \A k \in EventsOf(s, "COMPLETE") :
                   k > i => event_log[k].timestamp > t}

(* the instants of the log from the request answered by the START at       *)
(* position j up to, and without, the instant of that START                *)
InstantsOfWait(j) ==
    {event_log[i].timestamp : i \in LogIdx} \cap
    {t \in 0..event_log[j].timestamp :
        /\ t >= event_log[j].timestamp - event_log[j].wait_time
        /\ t < event_log[j].timestamp}

HeldThroughoutWait ==
    \A j \in LogIdx :
        (event_log[j].event_type = "START" /\ event_log[j].wait_time > 0) =>
            \A t \in InstantsOfWait(j) :
                Cardinality(HoldersAfter(event_log[j].device_id, t))
                    = Capacity(event_log[j].device_id)

(* C37: devices are work-conserving: whenever the simulation clock         *)
(* advances, no device has both a waiting sample and a free slot, so a     *)
(* START with wait_time > 0 implies that capacity samples held the device  *)
(* throughout the wait.                                                    *)
C37_WorkConserving ==
    /\ [][now' > now => \A d \in DOMAIN resources : ~IdleWithWaiter(d)]_vars
    /\ []HeldThroughoutWait

WaitedStart(j) ==
    /\ event_log[j].event_type = "START"
    /\ event_log[j].wait_time > 0

(* one sample has waited for a device over two earlier instants, one has   *)
(* waited for a device of capacity 2, and the clock has advanced since     *)
C37_Witness ==
    /\ \E j \in LogIdx :
           /\ WaitedStart(j)
           /\ Cardinality(InstantsOfWait(j)) >= 2
           /\ now > event_log[j].timestamp
    /\ \E j \in LogIdx :
           /\ WaitedStart(j)
           /\ Capacity(event_log[j].device_id) = 2
           /\ now > event_log[j].timestamp

-----------------------------------------------------------------------------
(* The head of the event log *)

(* the entry at position i is the QUEUED event of sample i - 1 for the     *)
(* first step, at time 0                                                   *)
EntryOfCohort(i) ==
    /\ event_log[i].event_type = "QUEUED"
    /\ event_log[i].sample_id = i - 1
    /\ event_log[i].operation_id = workflow.base_sequence[1].operation_id
    /\ event_log[i].timestamp = 0

(* C38: with N samples and a non-empty base_sequence the first N entries   *)
(* of the event log are the QUEUED events of SAMPLE_000 .. SAMPLE_(N-1)    *)
(* for the first step, in index order and all at timestamp 0, before any   *)
(* START event.                                                            *)
C38_LogOpensWithCohort ==
    NumSteps >= 1 =>
        /\ \A i \in LogIdx : i <= scenario.num_samples => EntryOfCohort(i)
        /\ \A i \in LogIdx : event_log[i].event_type = "START" => i > scenario.num_samples
        /\ status = "done" => Len(event_log) >= scenario.num_samples

(* three samples on a device of capacity 2: the three QUEUED events, then  *)
(* the START events of the first two samples                               *)
C38_Witness ==
    /\ NumSteps >= 1
    /\ scenario.num_samples = 3
    /\ Len(event_log) >= 5
    /\ Capacity(event_log[1].device_id) = 2
    /\ \A i \in 1..3 : EntryOfCohort(i)
    /\ event_log[4].event_type = "START" /\ event_log[4].sample_id = 0
    /\ event_log[5].event_type = "START" /\ event_log[5].sample_id = 1

-----------------------------------------------------------------------------
(* Wait statistics per device and per operation *)

(* the operations bound to device d *)
OperationsOn(d) ==
    {o \in OperationIds : workflow.operations[FindOp(o)].device_id = d}

RECURSIVE SumOfWaitEvents(_)
SumOfWaitEvents(ops) ==
    IF ops = {} THEN 0
    ELSE LET o == CHOOSE x \in ops : TRUE
         IN summary.operation_wait_times[o].wait_events + SumOfWaitEvents(ops \ {o})

RECURSIVE SumOfTotalWait(_)
SumOfTotalWait(ops) ==
    IF ops = {} THEN 0
    ELSE LET o == CHOOSE x \in ops : TRUE
         IN summary.operation_wait_times[o].total_wait + SumOfTotalWait(ops \ {o})

CountsAgree ==
    /\ \A d \in Devices :
           summary.device_queue_stats[d].queue_events = SumOfWaitEvents(OperationsOn(d))
    /\ \A o \in OperationIds :
           summary.operation_stats[o].sample_count
               <= Cardinality({i \in LogIdx : /\ event_log[i].event_type = "START"
                                               /\ event_log[i].operation_id = o})

TotalsAgree ==
    \A d \in Devices :
        summary.device_queue_stats[d].total_queue_time = SumOfTotalWait(OperationsOn(d))

(* C39 as stated: for every device, queue_events and total_queue_time equal *)
(* the sums of wait_events and total_wait over the operations bound to the *)
(* device, and for every operation sample_count does not exceed its number *)
(* of START events.                                                        *)
C39_Original ==
    status = "done" => CountsAgree /\ TotalsAgree

(* the wait times of the device d add up without rounding, in any order *)
WaitsAddExactly(d) ==
    LET waits == SelectSeq(event_log, LAMBDA x : /\ x.device_id = d
                                                 /\ x.event_type = "START"
                                                 /\ x.wait_time > 0)
        RECURSIVE Exact(_)
        Exact(k) == IF k = 0 THEN 0 ELSE waits[k].wait_time + Exact(k - 1)
    IN Exact(Len(waits)) < 2^Mantissa

(* C39, amended: the counts agree always; total_queue_time equals the sum  *)
(* of total_wait over the operations bound to the device when the wait     *)
(* times add up without rounding (the sums are accumulated in different    *)
(* orders, so rounded sums may differ in the last place).                  *)
C39_WaitStatsAgree ==
    status = "done" =>
        /\ CountsAgree
        /\ \A d \in Devices :
               WaitsAddExactly(d) =>
                   summary.device_queue_stats[d].total_queue_time
                       = SumOfTotalWait(OperationsOn(d))

(* two operations bound to one device, both with waits, whose wait times   *)
(* add up exactly; one operation has more START than COMPLETE events       *)
C39_Witness ==
    /\ status = "done"
    /\ \E d \in Devices :
           /\ Cardinality(OperationsOn(d)) = 2
           /\ WaitsAddExactly(d)
           /\ \A o \in OperationsOn(d) : summary.operation_wait_times[o].wait_events > 0
           /\ summary.device_queue_stats[d].total_queue_time
                  > summary.operation_wait_times["op1"].total_wait
    /\ \E o \in OperationIds :
           summary.operation_stats[o].sample_count
               < Cardinality({i \in LogIdx : /\ event_log[i].event_type = "START"
                                              /\ event_log[i].operation_id = o})

====
